---- MODULE Spec2Model ----
\* MorphCards: the scheduler wrapper (core.py), the storage layer
\* (database.py) and the demo front end (demo.py).
\*
\* Representation
\*   - An Optional value is a sequence of length 0 (None) or 1.
\*   - A datetime is [wall, off]: the wall-clock reading in seconds and the
\*     UTC offset of its tzinfo in seconds; the instant it denotes is
\*     wall - off.  Only aware datetimes are modelled.
\*   - Stability and difficulty are real numbers computed by the fsrs
\*     library.  A present value is represented by the list of memory-model
\*     updates that produced it (branch, rating, elapsed days); the list
\*     determines the number, and the order between a value and its
\*     predecessor is read from the last update (StabilityDirection).
\*   - The interval the library assigns in Review state depends on the
\*     numeric stability and on random fuzzing; it is an input drawn from
\*     ReviewIntervalDays.
EXTENDS Integers, Sequences, FiniteSets, TLC

VARIABLES
    chain,      \* the caller-owned card: cards[1] as constructed, cards[k+1]
                \* returned by the k-th successful review_card; with the
                \* ratings, times and logs of those reviews
    last,       \* outcome of the most recent review_card call
    replay,     \* outcome of an independent second run on the same input
    clock,      \* current instant (seconds)
    tz,         \* UTC offset of the caller's clock
    db,         \* VocabularyDatabase: cards, review_logs, vocabulary tables
    demo,       \* MorphCardsDemo: current_card, api_key, ai_service_type
    msg         \* outcome of the most recent demo callback

vars == <<chain, last, replay, clock, tz, db, demo, msg>>

----------------------------------------------------------------------------
\* Bounds

MaxReviews == 3
MaxIntervalDays == 2

ReviewIntervalDays == 1..MaxIntervalDays
SecondsPerDay == 24 * 60 * 60
TzOffsets == {0, 0 - 5 * 60 * 60}
Gaps == {SecondsPerDay}
UuidPool == {"u1", "u2"}
\* Strings that the code strips, parses or concatenates are sequences of
\* one-character strings.
CardIds == {<<"c", "1">>, <<"c", "2">>}
Words == {<<"w">>, <<"v">>}
Sentences == {<<"s">>}
Languages == {"English"}

----------------------------------------------------------------------------
\* Optional values and datetimes

None == <<>>
Some(x) == <<x>>
Get(o) == o[1]

Dt(wall, off) == [wall |-> wall, off |-> off]
Instant(dt) == dt.wall - dt.off
\* datetime.replace(tzinfo=timezone.utc): the wall-clock reading is kept
replace_utc(dt) == [dt EXCEPT !.off = 0]
\* timedelta.days: whole days, rounded towards minus infinity
DaysOf(seconds) == seconds \div SecondsPerDay

----------------------------------------------------------------------------
\* core.py: Rating, Card

AGAIN == 1
HARD == 2
GOOD == 3
EASY == 4
Rating == {AGAIN, HARD, GOOD, EASY}

\* fsrs.State as imported by core.py
State == {"Learning", "Review", "Relearning"}

\* Card(...) with the defaults of the optional fields
Card(id, word, sentence, due_date, created_at, language) ==
    [id |-> id, word |-> word, sentence |-> sentence,
     original_sentence |-> sentence,
     stability |-> None, difficulty |-> None,
     due_date |-> due_date, created_at |-> created_at,
     last_reviewed |-> None, review_count |-> 0,
     state |-> "Learning", language |-> language]

----------------------------------------------------------------------------
\* The fsrs library as core.py drives it: Scheduler() with its default
\* learning steps (1 min, 10 min), relearning steps (10 min) and fuzzing.
\* A fsrs card is [state, step, stability, difficulty, due, last_review]
\* with due and last_review wall-clock readings in UTC.

LearningSteps == <<60, 10 * 60>>
RelearningSteps == <<10 * 60>>

\* (review_datetime - card.last_review).days, None without a last review
fsrs_days_since(fc, review_wall) ==
    IF fc.last_review = None THEN None
    ELSE Some(DaysOf(review_wall - Get(fc.last_review)))

\* Which memory-model branch updates stability and difficulty:
\*   init  - first review (both absent): initial values indexed by rating
\*   short - same-day review: short-term stability formula
\*   long  - otherwise: retrievability-based recall / forget formula
fsrs_branch(fc, review_wall) ==
    LET ds == fsrs_days_since(fc, review_wall)
    IN  IF fc.state = "Learning" /\ fc.stability = None /\ fc.difficulty = None
        THEN "init"
        ELSE IF ds # None /\ Get(ds) < 1 THEN "short" ELSE "long"

fsrs_memory(fc, rating, review_wall) ==
    LET ds == fsrs_days_since(fc, review_wall)
        kind == fsrs_branch(fc, review_wall)
        days == IF kind = "long" /\ ds # None /\ Get(ds) > 0 THEN Get(ds) ELSE 0
        tag == [kind |-> kind, rating |-> rating, days |-> days]
    IN  [stability |-> Some(IF kind = "init" THEN <<tag>>
                            ELSE Append(Get(fc.stability), tag)),
         difficulty |-> Some(IF kind = "init" THEN <<rating>>
                             ELSE Append(Get(fc.difficulty), rating))]

Graduate(ivl) == [state |-> "Review", interval |-> ivl * SecondsPerDay]

\* The state machine and the interval to the next review; ivl is the
\* (fuzzed) number of days the library computes for a card entering or
\* staying in Review.
fsrs_schedule(fc, rating, ivl) ==
    IF fc.state = "Learning" THEN
        IF fc.step >= Len(LearningSteps) /\ rating \in {HARD, GOOD, EASY}
        THEN Graduate(ivl)
        ELSE IF rating = AGAIN
        THEN [state |-> "Learning", interval |-> LearningSteps[1]]
        ELSE IF rating = HARD
        THEN [state |-> "Learning",
              interval |-> IF fc.step = 0
                           THEN (LearningSteps[1] + LearningSteps[2]) \div 2
                           ELSE LearningSteps[fc.step + 1]]
        ELSE IF rating = GOOD
        THEN IF fc.step + 1 = Len(LearningSteps)
             THEN Graduate(ivl)
             ELSE [state |-> "Learning", interval |-> LearningSteps[fc.step + 2]]
        ELSE Graduate(ivl)
    ELSE IF fc.state = "Review" THEN
        IF rating = AGAIN
        THEN [state |-> "Relearning", interval |-> RelearningSteps[1]]
        ELSE Graduate(ivl)
    ELSE
        IF fc.step >= Len(RelearningSteps) /\ rating \in {HARD, GOOD, EASY}
        THEN Graduate(ivl)
        ELSE IF rating = AGAIN
        THEN [state |-> "Relearning", interval |-> RelearningSteps[1]]
        ELSE IF rating = HARD
        THEN [state |-> "Relearning", interval |-> (RelearningSteps[1] * 3) \div 2]
        ELSE Graduate(ivl)

\* Scheduler.review_card(card, rating, review_datetime, None)
fsrs_review_card(fc, rating, review_wall, ivl) ==
    LET m == fsrs_memory(fc, rating, review_wall)
        s == fsrs_schedule(fc, rating, ivl)
    IN  [state |-> s.state, stability |-> m.stability,
         difficulty |-> m.difficulty,
         due |-> review_wall + s.interval, last_review |-> Some(review_wall)]

\* Direction in which the last memory-model update moved stability.
\* Short-term: S * exp(w17 * (G - 3 + w18)), w17 > 0.  Long-term: the
\* forget formula lowers stability, the recall formula raises it whenever
\* at least one day has elapsed (retrievability below 1).
W18 == 6567
StabilityDirection(stab) ==
    LET tag == stab[Len(stab)]
    IN  IF tag.kind = "init" THEN "initial"
        ELSE IF tag.kind = "short"
        THEN (IF (tag.rating - 3) * 10000 + W18 > 0 THEN "up" ELSE "down")
        ELSE IF tag.rating = AGAIN THEN "down"
        ELSE IF tag.days >= 1 THEN "up" ELSE "same"

----------------------------------------------------------------------------
\* pydantic validation of Card(...): the fields declared with Field(...)
\* and no default must be passed by keyword.

CardRequired == {"id", "word", "sentence", "original_sentence", "due_date",
                 "language"}
CardValidates(keywords) == CardRequired \subseteq keywords

\* Keywords passed by database.get_card / get_due_cards
RowCardKeywords == {"id", "word", "sentence", "original_sentence", "stability",
                    "difficulty", "due_date", "created_at", "last_reviewed",
                    "review_count"}
\* Keywords passed by MorphCardsDemo.add_card
DemoAddCardKeywords == {"id", "word", "sentence", "original_sentence",
                        "stability", "difficulty", "due_date", "created_at"}

----------------------------------------------------------------------------
\* database.py: VocabularyDatabase

EmptyTable == [k \in {} |-> k]
EmptyDb == [cards |-> EmptyTable, review_logs |-> EmptyTable,
            vocabulary |-> EmptyTable]

\* close(): the connection ends.  The database lives in memory
\* (db_path or ":memory:"), so its tables go with the connection; closing
\* twice changes nothing more.
close(d) ==
    [cards |-> EmptyTable, review_logs |-> EmptyTable, vocabulary |-> EmptyTable,
     closed |-> TRUE]
Connected(d) == "closed" \notin DOMAIN d

\* A datetime bound to a TIMESTAMP column: the instant, without time zone
ToTimestamp(dt) == Instant(dt)
ToTimestampOpt(o) == IF o = None THEN None ELSE Some(ToTimestamp(Get(o)))

\* Variant: the difficulty column is not written
CardRow_DifficultyDropped(card) ==
    [id |-> card.id, word |-> card.word, sentence |-> card.sentence,
     original_sentence |-> card.original_sentence,
     stability |-> card.stability, difficulty |-> None,
     due_date |-> ToTimestamp(card.due_date),
     created_at |-> ToTimestamp(card.created_at),
     last_reviewed |-> ToTimestampOpt(card.last_reviewed),
     review_count |-> card.review_count]

\* The ten columns add_card writes (no state, no language)
CardRow(card) ==
    [id |-> card.id, word |-> card.word, sentence |-> card.sentence,
     original_sentence |-> card.original_sentence,
     stability |-> card.stability, difficulty |-> card.difficulty,
     due_date |-> ToTimestamp(card.due_date),
     created_at |-> ToTimestamp(card.created_at),
     last_reviewed |-> ToTimestampOpt(card.last_reviewed),
     review_count |-> card.review_count]

VocabularyRow(card) ==
    [first_seen |-> ToTimestamp(card.created_at), last_reviewed |-> None,
     review_count |-> 0, mastery_level |-> 0]

\* INSERT OR REPLACE INTO cards; INSERT OR IGNORE INTO vocabulary
add_card(d, card) ==
    [d EXCEPT !.cards = (card.id :> CardRow(card)) @@ @,
              !.vocabulary = IF card.word \in DOMAIN @ THEN @
                             ELSE (card.word :> VocabularyRow(card)) @@ @]

update_card(d, card) == add_card(d, card)

LogRow(log) ==
    [card_id |-> log.card_id, review_time |-> ToTimestamp(log.review_time),
     rating |-> log.rating, interval |-> log.interval,
     stability |-> log.stability, difficulty |-> log.difficulty]

\* Variant: INSERT OR REPLACE INTO review_logs
add_review_log_Replacing(d, log) ==
    IF log.card_id \notin DOMAIN d.cards
    THEN [raised |-> TRUE, db |-> d]
    ELSE [raised |-> FALSE,
          db |-> [d EXCEPT !.review_logs =
                     (log.id :> LogRow(log)) @@ [i \in DOMAIN @ \ {log.id} |-> @[i]]]]

\* INSERT INTO review_logs (primary key id, foreign key card_id), then
\* UPDATE vocabulary for the word of the card.  Result: [raised, db].
add_review_log(d, log) ==
    IF log.id \in DOMAIN d.review_logs \/ log.card_id \notin DOMAIN d.cards
    THEN [raised |-> TRUE, db |-> d]
    ELSE LET w == d.cards[log.card_id].word
             d1 == [d EXCEPT !.review_logs = (log.id :> LogRow(log)) @@ @]
         IN  [raised |-> FALSE,
              db |-> IF w \in DOMAIN d1.vocabulary
                     THEN [d1 EXCEPT !.vocabulary[w] =
                              [@ EXCEPT !.last_reviewed = Some(ToTimestamp(log.review_time)),
                                        !.review_count = @ + 1]]
                     ELSE d1]

\* Ids of the rows selected by  WHERE due_date <= now
DueIds(d, now) ==
    {id \in DOMAIN d.cards : d.cards[id].due_date <= ToTimestamp(now)}

\* get_due_cards: every selected row is turned into a Card(...).
\* Result: [raised, ids]; ids are the ids of the cards returned.
get_due_cards(d, now) ==
    IF DueIds(d, now) = {} THEN [raised |-> FALSE, ids |-> {}]
    ELSE IF CardValidates(RowCardKeywords)
    THEN [raised |-> FALSE, ids |-> DueIds(d, now)]
    ELSE [raised |-> TRUE, ids |-> {}]

\* SELECT word FROM vocabulary ORDER BY first_seen: the lists the call may
\* return.  The statement names no second sort column, so words of equal
\* first_seen come in any order the engine delivers.
get_learned_vocabulary(d) ==
    LET n == Cardinality(DOMAIN d.vocabulary)
    IN  {s \in [1..n -> DOMAIN d.vocabulary] :
            /\ \A i, j \in 1..n : i # j => s[i] # s[j]
            /\ \A i, j \in 1..n :
                   i < j => d.vocabulary[s[i]].first_seen <= d.vocabulary[s[j]].first_seen}

----------------------------------------------------------------------------
\* core.py: FSRSScheduler

\* The learned words _generate_new_sentence works with: the override when
\* one is given, else what get_learned_vocabulary() returned; None stands
\* for that call raising.
learned_words(mastered_words_override, vocabulary_read) ==
    IF mastered_words_override # None THEN mastered_words_override
    ELSE vocabulary_read

MinLearnedWords == 5

\* Variant: the AI service is asked whatever the number of learned words
generate_new_sentence_NoMinimum(original_sentence, learned, ai) ==
    IF learned = None THEN original_sentence
    ELSE IF ai = None THEN original_sentence
    ELSE Get(ai)

\* _generate_new_sentence: learned is the list of learned words, None if
\* reading it raised; ai is the sentence the AI service returned, None if
\* the call raised.  Every exception ends in the original sentence.
generate_new_sentence(original_sentence, learned, ai) ==
    IF learned = None THEN original_sentence
    ELSE IF Len(Get(learned)) < MinLearnedWords THEN original_sentence
    ELSE IF ai = None THEN original_sentence
    ELSE Get(ai)

\* Variant: the card's state is not forwarded (the library's default)
FSRS_Card_StateDefault(card) ==
    [state |-> "Learning",
     step |-> card.review_count,
     stability |-> card.stability,
     difficulty |-> card.difficulty,
     due |-> replace_utc(card.due_date).wall,
     last_review |-> IF card.last_reviewed = None THEN None
                     ELSE Some(replace_utc(Get(card.last_reviewed)).wall)]

\* The fsrs card built from a Card: step is the card's review_count.
FSRS_Card(card) ==
    [state |-> card.state,
     step |-> card.review_count,
     stability |-> card.stability,
     difficulty |-> card.difficulty,
     due |-> replace_utc(card.due_date).wall,
     last_review |-> IF card.last_reviewed = None THEN None
                     ELSE Some(replace_utc(Get(card.last_reviewed)).wall)]

\* Variant: the updated card is given the language of the sentence request
CardIdentity_RequestLanguage(card) ==
    [id |-> card.id, word |-> card.word,
     original_sentence |-> card.original_sentence,
     created_at |-> card.created_at, language |-> "English"]

\* The fields the updated Card copies from the input card
CardIdentity(card) ==
    [id |-> card.id, word |-> card.word,
     original_sentence |-> card.original_sentence,
     created_at |-> card.created_at, language |-> card.language]

\* Variant: the review counter is copied, not incremented
UpdatedCard_CountCopied(card, u, new_sentence, now) ==
    [id |-> card.id, word |-> card.word, sentence |-> new_sentence,
     original_sentence |-> card.original_sentence,
     stability |-> u.stability, difficulty |-> u.difficulty,
     due_date |-> Dt(u.due, 0), created_at |-> card.created_at,
     last_reviewed |-> Some(now), review_count |-> card.review_count,
     state |-> u.state, language |-> card.language]

\* The updated Card assembled from the input card and the library's result
UpdatedCard(card, u, new_sentence, now) ==
    [id |-> CardIdentity(card).id, word |-> CardIdentity(card).word,
     sentence |-> new_sentence,
     original_sentence |-> CardIdentity(card).original_sentence,
     stability |-> u.stability, difficulty |-> u.difficulty,
     due_date |-> Dt(u.due, 0), created_at |-> CardIdentity(card).created_at,
     last_reviewed |-> Some(now), review_count |-> card.review_count + 1,
     state |-> u.state, language |-> CardIdentity(card).language]

\* Variant: the log records the memory state of the card before the review
NewReviewLog_StaleMemory(card, u, rating, now, uuid) ==
    [id |-> uuid, card_id |-> card.id, review_time |-> now,
     rating |-> rating,
     interval |-> IF u.last_review # None
                  THEN DaysOf(u.due - Get(u.last_review)) ELSE 0,
     stability |-> IF card.stability = None THEN <<>> ELSE Get(card.stability),
     difficulty |-> IF card.difficulty = None THEN <<>> ELSE Get(card.difficulty)]

\* The ReviewLog of the call; uuid is the value uuid.uuid4() returned
NewReviewLog(card, u, rating, now, uuid) ==
    [id |-> uuid, card_id |-> card.id, review_time |-> now,
     rating |-> rating,
     interval |-> IF u.last_review # None
                  THEN DaysOf(u.due - Get(u.last_review)) ELSE 0,
     stability |-> Get(u.stability), difficulty |-> Get(u.difficulty)]

\* Variant: review_card stores the card it returns
review_card_db_Persisting(d, card) == update_card(d, card)

\* The database after review_card(card, ..., database): the call only reads
\* the learned vocabulary
review_card_db(d, card) == d

\* Variant: an unknown rating is clamped to EASY instead of rejected
review_card_Clamping(card, rating, now, env) ==
    LET g == IF rating \in Rating THEN rating ELSE EASY
        u == fsrs_review_card(FSRS_Card(card), g, replace_utc(now).wall, env.ivl)
    IN  [ok |-> TRUE, err |-> "",
         card |-> Some(UpdatedCard(card, u, card.original_sentence, now)),
         log |-> Some(NewReviewLog(card, u, g, now, env.uuid))]

\* review_card(card, rating, now, ...).  env carries what the call takes
\* from outside: uuid (uuid4), ivl (the library's fuzzed Review interval),
\* learned (learned words), ai (the AI service's answer).
review_card(card, rating, now, env) ==
    IF rating \notin Rating
    THEN [ok |-> FALSE, err |-> "ValueError", card |-> None, log |-> None]
    ELSE LET u == fsrs_review_card(FSRS_Card(card), rating,
                                   replace_utc(now).wall, env.ivl)
             new_sentence == generate_new_sentence(card.original_sentence,
                                                   env.learned, env.ai)
         IN  [ok |-> TRUE, err |-> "",
              card |-> Some(UpdatedCard(card, u, new_sentence, now)),
              log |-> Some(NewReviewLog(card, u, rating, now, env.uuid))]

----------------------------------------------------------------------------
\* str.strip() and int(str) on sequences of characters.  Characters are those
\* of Latin-1 (U+0001 to U+00FF): the operators below do on them what Python
\* does.

\* The characters str.isspace() holds of: tab, line feed, vertical tab, form
\* feed, carriage return, the four separators U+001C to U+001F, the space,
\* next line U+0085 and the no-break space U+00A0.
Whitespace == {"\t", "\n", "", "\f", "\r", "", "", "", "", " ", "", " "}

\* s without its leading / trailing characters of the set chars
RECURSIVE LStrip(_, _)
LStrip(s, chars) ==
    IF s # <<>> /\ Head(s) \in chars THEN LStrip(Tail(s), chars) ELSE s
RECURSIVE RStrip(_, _)
RStrip(s, chars) ==
    IF s # <<>> /\ s[Len(s)] \in chars
    THEN RStrip(SubSeq(s, 1, Len(s) - 1), chars) ELSE s
\* str.strip()
Strip(s) == RStrip(LStrip(s, Whitespace), Whitespace)

\* The characters int() skips around the literal: the C whitespace of ASCII
\* and the whitespace beyond ASCII, but not the separators U+001C to U+001F
IntWhitespace == Whitespace \ {"", "", "", ""}

DigitChars == <<"0", "1", "2", "3", "4", "5", "6", "7", "8", "9">>
IsDigit(c) == \E i \in 1..10 : DigitChars[i] = c
DigitValue(c) == (CHOOSE i \in 1..10 : DigitChars[i] = c) - 1
RECURSIVE DigitsValue(_)
DigitsValue(s) ==
    IF s = <<>> THEN 0
    ELSE DigitsValue(SubSeq(s, 1, Len(s) - 1)) * 10 + DigitValue(s[Len(s)])

\* int(s): None stands for ValueError.  The characters of IntWhitespace
\* around the literal are dropped, one sign may lead, and a single underscore
\* may stand between two digits.
ParseInt(s) ==
    LET t == RStrip(LStrip(s, IntWhitespace), IntWhitespace)
        signed == t # <<>> /\ Head(t) \in {"+", "-"}
        body == IF signed THEN Tail(t) ELSE t
        grouped(i) == /\ body[i] = "_"
                      /\ 1 < i
                      /\ i < Len(body)
                      /\ IsDigit(body[i - 1])
                      /\ IsDigit(body[i + 1])
        digits == SelectSeq(body, IsDigit)
    IN  IF body = <<>> \/ \E i \in 1..Len(body) : ~(IsDigit(body[i]) \/ grouped(i))
        THEN None
        ELSE Some(IF signed /\ Head(t) = "-" THEN 0 - DigitsValue(digits)
                  ELSE DigitsValue(digits))

----------------------------------------------------------------------------
\* ai.py: AIServiceFactory.create_service

\* str.lower() on a sequence of characters: the cased characters of Latin-1
\* are the letters A to Z and the accented capitals U+00C0 to U+00DE (the
\* multiplication sign U+00D7 is not a letter).
UpperLetters == <<"A", "B", "C", "D", "E", "F", "G", "H", "I", "J", "K", "L",
                  "M", "N", "O", "P", "Q", "R", "S", "T", "U", "V", "W", "X",
                  "Y", "Z", "À", "Á", "Â", "Ã", "Ä", "Å", "Æ", "Ç", "È", "É",
                  "Ê", "Ë", "Ì", "Í", "Î", "Ï", "Ð", "Ñ", "Ò", "Ó", "Ô", "Õ",
                  "Ö", "Ø", "Ù", "Ú", "Û", "Ü", "Ý", "Þ">>
LowerLetters == <<"a", "b", "c", "d", "e", "f", "g", "h", "i", "j", "k", "l",
                  "m", "n", "o", "p", "q", "r", "s", "t", "u", "v", "w", "x",
                  "y", "z", "à", "á", "â", "ã", "ä", "å", "æ", "ç", "è", "é",
                  "ê", "ë", "ì", "í", "î", "ï", "ð", "ñ", "ò", "ó", "ô", "õ",
                  "ö", "ø", "ù", "ú", "û", "ü", "ý", "þ">>
LowerChar(c) ==
    IF \E i \in DOMAIN UpperLetters : UpperLetters[i] = c
    THEN LowerLetters[CHOOSE i \in DOMAIN UpperLetters : UpperLetters[i] = c]
    ELSE c
Lower(t) == [i \in 1..Len(t) |-> LowerChar(t[i])]

OPENAI == <<"o", "p", "e", "n", "a", "i">>
GEMINI == <<"g", "e", "m", "i", "n", "i">>

\* get_available_services()
get_available_services == <<OPENAI, GEMINI>>

\* The class create_service instantiates, None when it raises ValueError
created_service(service_type) ==
    IF Lower(service_type) = OPENAI THEN Some("OpenAIService")
    ELSE IF Lower(service_type) = GEMINI THEN Some("GeminiService")
    ELSE None

\* Variant: the name is compared as given
create_service_CaseSensitive(service_type) == service_type \in {OPENAI, GEMINI}

\* TRUE when a service is returned, FALSE when ValueError is raised
create_service(service_type) == created_service(service_type) # None

\* ai.py: generate_sentence_variation.  A model name is [family, suffix]:
\* the family is the prefix startswith() tests for, and names of one
\* family sort by suffix (0 is the bare family name).  The remote API is
\* what the call is given: listing (the models listed, None when listing
\* raises) and gen (per model, the text generated, None when generating
\* raises).  Result: [raised, sentence].

Model(family, suffix) == [family |-> family, suffix |-> suffix]

\* f"I am learning the word '{word}' in {language}'."
FallbackSentence(word, language) ==
    <<"I am learning the word '">> \o word \o <<"' in ", language, "'.">>

\* response text: strip(), then one pair of enclosing double quotes removed
CleanSentence(text) ==
    LET t == Strip(text)
    IN  IF Len(t) >= 1 /\ t[1] = "\"" /\ t[Len(t)] = "\""
        THEN SubSeq(t, 2, Len(t) - 1)
        ELSE t

\* sorted([m for m in available if m.startswith(family)], reverse=True)[:1]
LatestOfFamily(available, family) ==
    LET ms == {available[i] : i \in {j \in DOMAIN available : available[j].family = family}}
    IN  IF ms = {} THEN <<>>
        ELSE <<CHOOSE m \in ms : \A x \in ms : x.suffix <= m.suffix>>

RECURSIVE LatestOfFamilies(_, _)
LatestOfFamilies(available, families) ==
    IF families = <<>> THEN <<>>
    ELSE LatestOfFamily(available, Head(families))
            \o LatestOfFamilies(available, Tail(families))

\* for name in names: if name not in models: models.append(name)
RECURSIVE AppendMissing(_, _)
AppendMissing(models, names) ==
    IF names = <<>> THEN models
    ELSE AppendMissing(IF \E i \in DOMAIN models : models[i] = Head(names)
                       THEN models ELSE Append(models, Head(names)),
                       Tail(names))

\* for model in models: try generating; the first that answers is returned
RECURSIVE FirstAnswer(_, _, _)
FirstAnswer(models, gen, fallback) ==
    IF models = <<>> THEN [raised |-> FALSE, sentence |-> Some(fallback)]
    ELSE IF gen[Head(models)] = None THEN FirstAnswer(Tail(models), gen, fallback)
    ELSE [raised |-> FALSE, sentence |-> Some(CleanSentence(Get(gen[Head(models)])))]

OpenAIFamilies == <<"gpt-4", "gpt-3.5-turbo">>

\* OpenAIService.generate_sentence_variation; client_ok is FALSE when
\* openai.OpenAI(api_key=...) raises
openai_generate_sentence_variation(word, language, client_ok, listing, gen) ==
    IF ~client_ok THEN [raised |-> TRUE, sentence |-> None]
    ELSE LET available ==
                 IF listing = None
                 THEN [i \in DOMAIN OpenAIFamilies |-> Model(OpenAIFamilies[i], 0)]
                 ELSE SelectSeq(Get(listing),
                                LAMBDA m : \E i \in DOMAIN OpenAIFamilies :
                                               m.family = OpenAIFamilies[i])
             models_to_try ==
                 AppendMissing(LatestOfFamilies(available, OpenAIFamilies), available)
         IN  FirstAnswer(models_to_try, gen, FallbackSentence(word, language))

GeminiFamilies == <<"models/gemini-2.5-flash-lite", "models/gemini-1.5-flash-lite",
                    "models/gemini-1.5-pro">>

\* GeminiService.generate_sentence_variation; supports is the set of
\* listed models with generateContent among their generation methods
gemini_generate_sentence_variation(word, language, listing, supports, gen) ==
    IF listing = None THEN [raised |-> TRUE, sentence |-> None]
    ELSE LET available == SelectSeq(Get(listing), LAMBDA m : m \in supports)
             models_to_try == LatestOfFamilies(available, GeminiFamilies)
         IN  FirstAnswer(models_to_try, gen, FallbackSentence(word, language))

----------------------------------------------------------------------------
\* demo.py: MorphCardsDemo.  A callback returns [msg, db, demo]; msg is
\* [op, text, input, scheduler_invoked], text "ValidationError" standing
\* for the exception that leaves the callback.

Outcome(op, text, input, invoked, d, dm) ==
    [msg |-> [op |-> op, text |-> text, input |-> input, scheduler_invoked |-> invoked],
     db |-> d, demo |-> dm]

\* A Card read back from a row of the cards table
CardFromRow(row) ==
    [id |-> row.id, word |-> row.word, sentence |-> row.sentence,
     original_sentence |-> row.original_sentence,
     stability |-> row.stability, difficulty |-> row.difficulty,
     due_date |-> Dt(row.due_date, 0), created_at |-> Dt(row.created_at, 0),
     last_reviewed |-> IF row.last_reviewed = None THEN None
                       ELSE Some(Dt(Get(row.last_reviewed), 0)),
     review_count |-> row.review_count,
     state |-> "Learning", language |-> ""]

\* get_card(card_id): None without a row, else Card(...) built from the
\* ten columns.  Result: [raised, card].
get_card(d, card_id) ==
    IF card_id \notin DOMAIN d.cards THEN [raised |-> FALSE, card |-> None]
    ELSE IF CardValidates(RowCardKeywords)
    THEN [raised |-> FALSE, card |-> Some(CardFromRow(d.cards[card_id]))]
    ELSE [raised |-> TRUE, card |-> None]

\* The keyword arguments a call passes against the parameters
\* get_due_cards declares: (self, now)
GetDueCardsParameters == {"now"}
get_due_cards_call(d, now, keywords) ==
    IF keywords \subseteq GetDueCardsParameters
    THEN get_due_cards(d, now)
    ELSE [raised |-> TRUE, ids |-> {}]

\* A ReviewLog read back from a row of the review_logs table
ReviewLogFromRow(id, row) ==
    [id |-> id, card_id |-> row.card_id, review_time |-> Dt(row.review_time, 0),
     rating |-> row.rating, interval |-> row.interval,
     stability |-> row.stability, difficulty |-> row.difficulty]

\* The rows with the given ids  ORDER BY review_time DESC: every order the
\* query may deliver (rows of equal review_time come in any order)
RECURSIVE RowsNewestFirst(_, _)
RowsNewestFirst(d, ids) ==
    IF ids = {} THEN {<<>>}
    ELSE LET newest == {i \in ids : \A j \in ids :
                            d.review_logs[j].review_time <= d.review_logs[i].review_time}
         IN  UNION {{<<ReviewLogFromRow(i, d.review_logs[i])>> \o h :
                        h \in RowsNewestFirst(d, ids \ {i})} : i \in newest}

\* get_review_history(card_id): the set of lists the call may return.  The
\* WHERE clause is added on "if card_id:", so None and the empty string both
\* select the logs of all cards
get_review_history(d, card_id) ==
    RowsNewestFirst(d, IF card_id = None \/ Get(card_id) = <<>>
                       THEN DOMAIN d.review_logs
                       ELSE {i \in DOMAIN d.review_logs :
                                d.review_logs[i].card_id = Get(card_id)})

\* add_card(word, sentence, language) at time now; ts is the id suffix
demo_add_card(dm, d, word, sentence, language, now, ts) ==
    IF Strip(word) = <<>> \/ Strip(sentence) = <<>>
    THEN Outcome("add_card", "Please provide both word and sentence.", word, FALSE, d, dm)
    ELSE IF ~CardValidates(DemoAddCardKeywords)
    THEN Outcome("add_card", "ValidationError", word, FALSE, d, dm)
    ELSE Outcome("add_card", "Added card for word", word, FALSE,
                 add_card(d, Card(word \o <<"_", ts>>, Strip(word), Strip(sentence),
                                  now, now, language)),
                 dm)

\* start_review() at time now; pick is the row the query returns first
start_review(dm, d, now, pick) ==
    LET due == get_due_cards(d, now)
    IN  IF due.raised
        THEN Outcome("start_review", "ValidationError", <<>>, FALSE, d, dm)
        ELSE IF due.ids = {}
        THEN Outcome("start_review", "No cards due for review!", <<>>, FALSE, d, dm)
        ELSE Outcome("start_review", "Reviewing", <<>>, FALSE, d,
                     [dm EXCEPT !.current_card = Some(CardFromRow(d.cards[pick]))])

\* The keyword arguments of the scheduler.review_card(...) call in
\* submit_review, against the parameters review_card declares without a
\* default
ReviewCardRequired == {"card", "rating", "now", "ai_api_key", "vocabulary_database",
                       "ai_service", "language"}
SubmitReviewKeywords == {"card", "rating", "now", "ai_api_key", "vocabulary_database",
                         "ai_service"}

\* Variant: the call passes every required argument
CallBinds_Always(keywords) == TRUE

CallBinds(keywords) == ReviewCardRequired \subseteq keywords

\* The database after submit_review's try block, given the review result
\* r of a call that returned: update_card, then add_review_log
submit_persist(d, r) ==
    LET d1 == update_card(d, Get(r.card))
        r2 == add_review_log(d1, Get(r.log))
    IN  [raised |-> r2.raised, db |-> IF r2.raised THEN d1 ELSE r2.db]

\* submit_review(rating_input) at time now
submit_review(dm, d, rating_input, now, env) ==
    LET parsed == ParseInt(rating_input)
        Fail(text, invoked) == Outcome("submit_review", text, rating_input, invoked, d, dm)
    IN  IF dm.current_card = None
        THEN Fail("No card to review. Please start a review first.", FALSE)
        ELSE IF parsed = None
        THEN Fail("Please enter a valid number.", FALSE)
        ELSE IF Get(parsed) \notin {1, 2, 3, 4}
        THEN Fail("Please enter a rating between 1 and 4.", FALSE)
        ELSE IF dm.api_key = <<>>
        THEN Fail("Please set your API key first.", FALSE)
        ELSE IF ~create_service(dm.ai_service_type)
        THEN Fail("Error during review", FALSE)
        ELSE IF ~CallBinds(SubmitReviewKeywords)
        THEN Fail("Error during review", FALSE)
        ELSE LET r == review_card(Get(dm.current_card), Get(parsed), now, env)
             IN  IF ~r.ok THEN Fail("Error during review", TRUE)
                 ELSE LET p == submit_persist(d, r)
                      IN  IF p.raised
                          THEN Outcome("submit_review", "Error during review",
                                       rating_input, TRUE, p.db, dm)
                          ELSE Outcome("submit_review", "Review completed!",
                                       rating_input, TRUE, p.db,
                                       [dm EXCEPT !.current_card = None])

\* set_api_key(api_key, service_type)
set_api_key(dm, d, api_key, service_type) ==
    Outcome("set_api_key",
            IF Strip(api_key) = <<>> THEN "API key cleared." ELSE "API key set",
            <<>>, FALSE, d,
            [dm EXCEPT !.api_key = Strip(api_key), !.ai_service_type = service_type])

\* FSRSScheduler(parameters): the 19 weights (in ten-thousandths) handed
\* to the library's Scheduler, the defaults when none are given
DefaultParameters ==
    <<4072, 11829, 31262, 154722, 72102, 5316, 10651, 234, 16160, 1544,
      10824, 19813, 953, 2975, 22042, 2407, 29466, 5034, 6567>>
FSRSScheduler(parameters) ==
    [parameters |-> IF parameters = None THEN DefaultParameters ELSE Get(parameters)]

\* Optimizer().optimize_parameters(review_history) is not part of the
\* modules at hand: fit is what it returns, None if it raises.
OptimizerFits == {None, Some(DefaultParameters)}

\* An optimize_parameters outcome: optimizer_run tells whether
\* Optimizer.optimize_parameters was entered
OptimizeOutcome(op, text, ran, d, dm) ==
    [msg |-> [op |-> op, text |-> text, input |-> <<>>,
              scheduler_invoked |-> FALSE, optimizer_run |-> ran],
     db |-> d, demo |-> dm]

MinReviewsToOptimize == 10

\* The names bound in demo.py when optimize_parameters runs
DemoModuleNames == {"os", "datetime", "timezone", "List", "Optional", "Tuple", "gr",
                    "load_dotenv", "AIServiceFactory", "Card", "FSRSScheduler",
                    "Rating", "VocabularyDatabase"}

\* Variant: no minimum number of reviews
demo_optimize_parameters_NoThreshold(dm, d, review_history, fit) ==
    IF "Optimizer" \notin DemoModuleNames \/ fit = None
    THEN OptimizeOutcome("demo.optimize_parameters", "Error during optimization",
                         "Optimizer" \in DemoModuleNames, d, dm)
    ELSE OptimizeOutcome("demo.optimize_parameters", "Optimal FSRS parameters:", TRUE, d, dm)

\* MorphCardsDemo.optimize_parameters(); review_history is what
\* db.get_review_history() returned
demo_optimize_parameters(dm, d, review_history, fit) ==
    IF Len(review_history) < MinReviewsToOptimize
    THEN OptimizeOutcome("demo.optimize_parameters",
                         "Need at least 10 reviews to optimize parameters.", FALSE, d, dm)
    ELSE IF "Optimizer" \notin DemoModuleNames \/ fit = None
    THEN OptimizeOutcome("demo.optimize_parameters", "Error during optimization",
                         "Optimizer" \in DemoModuleNames, d, dm)
    ELSE OptimizeOutcome("demo.optimize_parameters", "Optimal FSRS parameters:", TRUE, d, dm)

\* The names bound in core.py once it is loaded: its imports and its four
\* classes.  cli.py line 9 asks core for the names of CliImportsFromCore.
CoreModuleNames == {"uuid", "datetime", "timezone", "IntEnum", "TYPE_CHECKING",
                    "List", "Optional", "Tuple", "Union", "FSRS_Card",
                    "FSRS_Rating", "Scheduler", "State", "BaseModel", "ConfigDict",
                    "Field", "Rating", "Card", "ReviewLog", "FSRSScheduler"}
CliImportsFromCore == {"Card", "Rating", "Scheduler", "Optimizer"}

\* cli.optimize_parameters(db), the function as it runs with cli.py loaded:
\* prints.  optimizer = Optimizer() stands before the try block, so a name
\* core.py does not bind ends the command with NameError, and nothing is
\* printed after "Optimizing FSRS parameters...".
cli_optimize_parameters(dm, d, review_history, fit) ==
    IF Len(review_history) < MinReviewsToOptimize
    THEN OptimizeOutcome("cli.optimize_parameters",
                         "Need at least 10 reviews to optimize parameters", FALSE, d, dm)
    ELSE IF "Optimizer" \notin CoreModuleNames
    THEN OptimizeOutcome("cli.optimize_parameters", "NameError", FALSE, d, dm)
    ELSE IF fit = None
    THEN OptimizeOutcome("cli.optimize_parameters", "Error during optimization", TRUE, d, dm)
    ELSE OptimizeOutcome("cli.optimize_parameters", "Optimal parameters:", TRUE, d, dm)

\* cli.py

\* Keywords passed by cli.add_card to Card(...)
CliAddCardKeywords == {"id", "word", "sentence", "original_sentence",
                       "stability", "difficulty", "due_date", "created_at"}

\* cli.add_card(db, word, sentence, language): no try block, an exception
\* leaves the command.  stability=0.0 and difficulty=0.0 are a memory
\* without any update.
cli_add_card(dm, d, word, sentence, language, now, ts) ==
    IF ~CardValidates(CliAddCardKeywords)
    THEN Outcome("cli.add_card", "ValidationError", word, FALSE, d, dm)
    ELSE Outcome("cli.add_card", "Added card for word", word, FALSE,
                 add_card(d, [Card(word \o <<"_", ts>>, word, sentence, now, now,
                                   language)
                              EXCEPT !.stability = Some(<<>>),
                                     !.difficulty = Some(<<>>)]),
                 dm)

\* The parameters of review_card of the library's Scheduler, the class
\* cli.review_cards instantiates, and the keywords of its call
FsrsReviewCardParameters == {"card", "rating", "review_datetime", "review_duration"}
CliReviewKeywords == {"card", "rating", "now", "ai_api_key", "vocabulary_database",
                      "ai_service"}

\* cli.review_cards(db, ai_service_type, api_key); env_key is the value of
\* the <SERVICE>_API_KEY environment variable
cli_review_cards(dm, d, ai_service_type, api_key, env_key, now) ==
    LET Out(text, invoked) == Outcome("cli.review_cards", text, api_key, invoked, d, dm)
        due == get_due_cards(d, now)
    IN  IF api_key = <<>> /\ env_key = <<>>
        THEN Out("Error: No API key provided", FALSE)
        ELSE IF due.raised THEN Out("ValidationError", FALSE)
        ELSE IF due.ids = {} THEN Out("No cards due for review!", FALSE)
        ELSE IF ~create_service(ai_service_type) THEN Out("ValueError", FALSE)
        ELSE IF ~(CliReviewKeywords \subseteq FsrsReviewCardParameters)
        THEN Out("TypeError", FALSE)
        ELSE Out("reviewed", TRUE)

\* python -m morphcards.cli <command>: loading cli.py runs its imports, and
\* "from .core import ... Optimizer" raises ImportError when core.py binds no
\* such name.  Past the imports main() opens a database of its own for the
\* command (db = VocabularyDatabase(), in memory) and closes it in "finally";
\* ran is the outcome of the command on that database.  The caller's
\* database d is never touched.
cli_main(dm, d, ran) ==
    IF ~(CliImportsFromCore \subseteq CoreModuleNames)
    THEN [msg |-> OptimizeOutcome("cli.main", "ImportError", FALSE, d, dm).msg,
          db |-> d, demo |-> dm, own |-> None]
    ELSE [msg |-> ran.msg, db |-> d, demo |-> dm, own |-> Some(close(ran.db))]

----------------------------------------------------------------------------
\* A caller that owns one card and reviews it through FSRSScheduler

InvalidRatings == {0, 5}
AiAnswers == {None, Some(<<"g">>)}

Now(inst) == Dt(inst + tz, tz)
CurrentCard == chain.cards[Len(chain.cards)]
Reviews == Len(chain.ratings)

Env(uuid, ivl, learned, ai) ==
    [uuid |-> uuid, ivl |-> ivl, learned |-> Some(learned), ai |-> ai]

EmptyChain == [cards |-> <<>>, ratings |-> <<>>, nows |-> <<>>]
NewDemo == [current_card |-> None, api_key |-> <<>>, ai_service_type |-> OPENAI,
            scheduler |-> FSRSScheduler(None)]

Init ==
    /\ chain = EmptyChain
    /\ last = None
    /\ replay = None
    /\ clock = 0
    /\ tz \in TzOffsets
    /\ db = EmptyDb
    /\ demo = NewDemo
    /\ msg = None

\* Card(...) constructed by the caller and stored with db.add_card
NewCard ==
    /\ chain.cards = <<>>
    /\ \E id \in CardIds, word \in Words, sentence \in Sentences, language \in Languages :
          LET card == Card(id, word, sentence, Now(clock), Now(clock), language)
          IN  /\ chain' = [chain EXCEPT !.cards = <<card>>]
              /\ db' = add_card(db, card)
    /\ UNCHANGED <<last, replay, clock, tz, demo, msg>>

\* The times at which the caller may review: a gap after the current
\* instant, or the card's due date if it is not in the past
ReviewInstants ==
    {clock + g : g \in Gaps}
        \cup {i \in {Instant(CurrentCard.due_date)} : i >= clock}

\* scheduler.review_card(card, rating, now, ...) on the caller's card
ReviewCard ==
    /\ chain.cards # <<>>
    /\ Reviews < MaxReviews
    /\ \E rating \in Rating, inst \in ReviewInstants,
          uuid \in UuidPool, ivl \in ReviewIntervalDays, ai \in AiAnswers,
          learned \in get_learned_vocabulary(db) :
          LET r == review_card(CurrentCard, rating, Now(inst),
                               Env(uuid, ivl, learned, ai))
          IN  /\ last' = Some([card |-> CurrentCard, rating |-> rating,
                               now |-> Now(inst), result |-> r])
              /\ chain' = [cards |-> Append(chain.cards, Get(r.card)),
                           ratings |-> Append(chain.ratings, rating),
                           nows |-> Append(chain.nows, Now(inst))]
              /\ clock' = inst
              /\ db' = review_card_db(db, Get(r.card))
    /\ replay' = None
    /\ UNCHANGED <<tz, demo, msg>>

\* db.update_card(card): the caller stores its card
StoreCard ==
    /\ chain.cards # <<>>
    /\ db.cards[CurrentCard.id] # CardRow(CurrentCard)
    /\ db' = update_card(db, CurrentCard)
    /\ UNCHANGED <<chain, last, replay, clock, tz, demo, msg>>

\* An independent second run of the most recent call on the same
\* (card, rating, now): its own uuid4, fuzz and AI answer
Replay ==
    /\ last # None
    /\ replay = None
    /\ \E uuid \in UuidPool, ivl \in ReviewIntervalDays, ai \in AiAnswers,
          learned \in get_learned_vocabulary(db) :
          replay' = Some(review_card(Get(last).card, Get(last).rating, Get(last).now,
                                     Env(uuid, ivl, learned, ai)))
    /\ UNCHANGED <<chain, last, clock, tz, db, demo, msg>>

SchedNext == NewCard \/ ReviewCard \/ StoreCard

SpecSched == Init /\ [][SchedNext]_vars

ReplayNext == NewCard \/ ReviewCard \/ Replay

SpecReplay == Init /\ [][ReplayNext]_vars

TypeOK ==
    /\ tz \in TzOffsets
    /\ clock \in Nat
    /\ Len(chain.cards) <= MaxReviews + 1

----------------------------------------------------------------------------
\* The demo front end over its database

DemoWords == {<<>>, <<"\t">>, <<"w">>, <<" ", "w">>}
DemoSentences == {<<>>, <<"\n">>, <<"s">>}
RatingInputs == {<<"3">>, <<"5">>, <<"0">>, <<"a">>, <<>>, <<"3", "\n">>,
                 <<"\t", "4">>, <<"-", "1">>, <<"1", "_", "0">>, <<"3", "">>}
ApiKeyInputs == {<<>>, <<"\n">>, <<"k">>, <<"\t", "k">>}
ServiceTypes == {OPENAI, GEMINI, <<"O", "p", "e", "n", "A", "I">>,
                 <<"i", "n", "v", "a", "l", "i", "d">>}

\* MorphCardsDemo() with GEMINI_API_KEY set in the environment
GeminiDemo == [current_card |-> None, api_key |-> <<"k">>, ai_service_type |-> GEMINI,
               scheduler |-> FSRSScheduler(None)]

InitDemo ==
    /\ chain = EmptyChain
    /\ last = None
    /\ replay = None
    /\ clock = 0
    /\ tz = 0
    /\ db = EmptyDb
    /\ demo \in {NewDemo, GeminiDemo}
    /\ msg = None

Apply(o) ==
    /\ msg' = Some(o.msg)
    /\ db' = o.db
    /\ demo' = o.demo

DemoAddCard ==
    /\ \E word \in DemoWords, sentence \in DemoSentences, language \in Languages :
          Apply(demo_add_card(demo, db, word, sentence, language,
                              Dt(clock, 0), ToString(clock)))
    /\ UNCHANGED <<chain, last, replay, clock, tz>>

\* db.add_card(Card(...)) called directly on the demo's database
DbAddCard ==
    /\ \E id \in CardIds, word \in Words, sentence \in Sentences, language \in Languages :
          Apply(Outcome("db.add_card", "", <<>>, FALSE,
                        add_card(db, Card(id, word, sentence, Dt(clock, 0),
                                          Dt(clock, 0), language)),
                        demo))
    /\ UNCHANGED <<chain, last, replay, clock, tz>>

StartReview ==
    /\ \E pick \in DueIds(db, Dt(clock, 0)) \cup {<<>>} :
          /\ pick = <<>> <=> DueIds(db, Dt(clock, 0)) = {}
          /\ Apply(start_review(demo, db, Dt(clock, 0), pick))
    /\ UNCHANGED <<chain, last, replay, clock, tz>>

\* demo.current_card = Card(...) assigned by the caller
SetCurrentCard ==
    /\ \E id \in CardIds, word \in Words, sentence \in Sentences, language \in Languages :
          Apply(Outcome("current_card=", "", <<>>, FALSE, db,
                        [demo EXCEPT !.current_card =
                            Some(Card(id, word, sentence, Dt(clock, 0),
                                      Dt(clock, 0), language))]))
    /\ UNCHANGED <<chain, last, replay, clock, tz>>

SubmitReview ==
    /\ \E rating_input \in RatingInputs, uuid \in UuidPool,
          ivl \in ReviewIntervalDays, ai \in AiAnswers,
          learned \in get_learned_vocabulary(db) :
          Apply(submit_review(demo, db, rating_input, Dt(clock, 0),
                              Env(uuid, ivl, learned, ai)))
    /\ UNCHANGED <<chain, last, replay, clock, tz>>

SetApiKey ==
    /\ \E api_key \in ApiKeyInputs, service_type \in ServiceTypes :
          Apply(set_api_key(demo, db, api_key, service_type))
    /\ UNCHANGED <<chain, last, replay, clock, tz>>

\* scheduler.review_card called on the demo's current card with a rating
\* that is not one of 1..4
SchedulerInvalid ==
    /\ demo.current_card # None
    /\ \E rating \in InvalidRatings, uuid \in UuidPool,
          ivl \in ReviewIntervalDays, ai \in AiAnswers,
          learned \in get_learned_vocabulary(db) :
          LET r == review_card(Get(demo.current_card), rating, Dt(clock, 0),
                               Env(uuid, ivl, learned, ai))
          IN  /\ last' = Some([card |-> Get(demo.current_card), rating |-> rating,
                               now |-> Dt(clock, 0), result |-> r])
              /\ msg' = Some([op |-> "review_card", text |-> r.err, input |-> <<>>,
                              scheduler_invoked |-> TRUE])
    /\ UNCHANGED <<chain, replay, clock, tz, db, demo>>

DemoNext ==
    \/ DemoAddCard
    \/ DbAddCard
    \/ StartReview
    \/ SetCurrentCard
    \/ SubmitReview
    \/ SetApiKey
    \/ SchedulerInvalid

SpecDemo == InitDemo /\ [][DemoNext]_vars

----------------------------------------------------------------------------
\* The storage layer driven directly, as tests/test_database.py and
\* tests/test_multilanguage.py drive it.  chain.cards lists the cards
\* handed to add_card / update_card, in order; last is the latest call.

MaxDbWrites == 4
DbTimes == {0, SecondsPerDay}
DbLanguages == {"English", "Japanese"}
DbCardKinds == {<<<<"c", "1">>, <<"w">>, "English">>, <<<<"c", "2">>, <<"v">>, "Japanese">>}

DbFreshCards ==
    {Card(k[1], k[2], <<"s">>, Dt(t, 0), Dt(0, 0), k[3]) : k \in DbCardKinds, t \in DbTimes}

\* The cards of DbFreshCards due at 0, after one review rated Easy at 0
DbReviewedCards ==
    {UpdatedCard(c, fsrs_review_card(FSRS_Card(c), EASY, 0, 1), c.original_sentence, Dt(0, 0)) :
        c \in {x \in DbFreshCards : x.due_date = Dt(0, 0)}}

DbCards == DbFreshCards \cup DbReviewedCards

\* The logs of a first review rated Good of the cards due at 0
DbLogs ==
    {NewReviewLog(c, fsrs_review_card(FSRS_Card(c), GOOD, t, 1), GOOD, Dt(t, 0), u) :
        c \in {x \in DbFreshCards : x.due_date = Dt(0, 0)}, t \in DbTimes, u \in UuidPool}

DbWrites == Len(chain.cards) + Cardinality(DOMAIN db.review_logs)

\* The card last handed to the store under this id
StoredCard(id) ==
    LET k == CHOOSE i \in 1..Len(chain.cards) :
                 /\ chain.cards[i].id = id
                 /\ \A j \in (i + 1)..Len(chain.cards) : chain.cards[j].id # id
    IN  chain.cards[k]

InitStore ==
    /\ chain = EmptyChain
    /\ last = None
    /\ replay = None
    /\ clock = 0
    /\ tz = 0
    /\ db = EmptyDb
    /\ demo = NewDemo
    /\ msg = None

StoreAddCard ==
    /\ Connected(db)
    /\ DbWrites < MaxDbWrites
    /\ \E c \in DbCards :
          /\ db' = add_card(db, c)
          /\ chain' = [chain EXCEPT !.cards = Append(@, c)]
          /\ last' = Some([op |-> "add_card", card |-> c])
    /\ UNCHANGED <<replay, clock, tz, demo, msg>>

StoreUpdateCard ==
    /\ Connected(db)
    /\ DbWrites < MaxDbWrites
    /\ \E c \in DbCards :
          /\ c.id \in DOMAIN db.cards
          /\ db' = update_card(db, c)
          /\ chain' = [chain EXCEPT !.cards = Append(@, c)]
          /\ last' = Some([op |-> "update_card", card |-> c])
    /\ UNCHANGED <<replay, clock, tz, demo, msg>>

\* get_card(c.id) right after add_card(c) or update_card(c)
StoreGetCard ==
    /\ Connected(db)
    /\ last # None
    /\ Get(last).op \in {"add_card", "update_card"}
    /\ last' = Some([op |-> "get_card", card |-> Get(last).card,
                     result |-> get_card(db, Get(last).card.id)])
    /\ UNCHANGED <<chain, replay, clock, tz, db, demo, msg>>

StoreGetDueCards ==
    /\ Connected(db)
    /\ \E t \in DbTimes, language \in {None} \cup {Some(l) : l \in DbLanguages} :
          last' = Some([op |-> "get_due_cards", now |-> Dt(t, 0), language |-> language,
                        result |-> get_due_cards_call(db, Dt(t, 0),
                                      IF language = None THEN {"now"}
                                      ELSE {"now", "language"})])
    /\ UNCHANGED <<chain, replay, clock, tz, db, demo, msg>>

StoreAddReviewLog ==
    /\ Connected(db)
    /\ DbWrites < MaxDbWrites
    /\ \E log \in DbLogs :
          LET r == add_review_log(db, log)
          IN  /\ db' = r.db
              /\ last' = Some([op |-> "add_review_log", log |-> log, raised |-> r.raised])
    /\ UNCHANGED <<chain, replay, clock, tz, demo, msg>>

StoreGetReviewHistory ==
    /\ Connected(db)
    /\ \E card_id \in {None, Some(<<>>)} \cup {Some(i) : i \in CardIds} :
          \E h \in get_review_history(db, card_id) :
              last' = Some([op |-> "get_review_history", card_id |-> card_id, result |-> h])
    /\ UNCHANGED <<chain, replay, clock, tz, db, demo, msg>>

\* close(), also what leaving a "with" block does (__exit__)
StoreClose ==
    /\ db' = close(db)
    /\ last' = Some([op |-> "close"])
    /\ UNCHANGED <<chain, replay, clock, tz, demo, msg>>

\* Any call on a closed connection: the statement is refused by the engine
StoreCallClosed ==
    /\ ~Connected(db)
    /\ last' = Some([op |-> "ConnectionException"])
    /\ UNCHANGED <<chain, replay, clock, tz, db, demo, msg>>

StoreNext ==
    \/ StoreAddCard
    \/ StoreUpdateCard
    \/ StoreGetCard
    \/ StoreGetDueCards
    \/ StoreAddReviewLog
    \/ StoreGetReviewHistory
    \/ StoreClose
    \/ StoreCallClosed

SpecStore == InitStore /\ [][StoreNext]_vars

----------------------------------------------------------------------------
\* Parameter optimization over a growing review history

MaxLogs == 11
OptCard == Card(<<"c", "1">>, <<"w">>, <<"s">>, Dt(0, 0), Dt(0, 0), "English")

\* The log of the n-th review of OptCard, one review a day
OptLog(n, rating) ==
    [id |-> <<"u", n>>, card_id |-> OptCard.id,
     review_time |-> Dt(n * SecondsPerDay, 0), rating |-> rating, interval |-> 1,
     stability |-> <<n>>, difficulty |-> <<rating>>]

StoredLogs == Cardinality(DOMAIN db.review_logs)

InitOptimize ==
    /\ chain = EmptyChain
    /\ last = None
    /\ replay = None
    /\ clock = 0
    /\ tz = 0
    /\ db = add_card(EmptyDb, OptCard)
    /\ demo = NewDemo
    /\ msg = None

OptAddReviewLog ==
    /\ StoredLogs < MaxLogs
    /\ \E rating \in {AGAIN, GOOD} :
          db' = add_review_log(db, OptLog(StoredLogs + 1, rating)).db
    /\ msg' = None
    /\ UNCHANGED <<chain, last, replay, clock, tz, demo>>

DemoOptimize ==
    /\ \E h \in get_review_history(db, None), fit \in OptimizerFits :
          LET o == demo_optimize_parameters(demo, db, h, fit)
          IN  /\ msg' = Some(o.msg)
              /\ db' = o.db
              /\ demo' = o.demo
    /\ UNCHANGED <<chain, last, replay, clock, tz>>

\* cli.optimize_parameters(db) called, with cli.py loaded, on the database at
\* hand
CliOptimize ==
    /\ \E h \in get_review_history(db, None), fit \in OptimizerFits :
          LET o == cli_optimize_parameters(demo, db, h, fit)
          IN  /\ msg' = Some(o.msg)
              /\ db' = o.db
              /\ demo' = o.demo
    /\ UNCHANGED <<chain, last, replay, clock, tz>>

\* The optimize command from the command line
CliMainOptimize ==
    /\ \E h \in get_review_history(EmptyDb, None), fit \in OptimizerFits :
          Apply(cli_main(demo, db, cli_optimize_parameters(demo, EmptyDb, h, fit)))
    /\ UNCHANGED <<chain, last, replay, clock, tz>>

OptimizeNext == OptAddReviewLog \/ DemoOptimize \/ CliOptimize \/ CliMainOptimize

SpecOptimize == InitOptimize /\ [][OptimizeNext]_vars

----------------------------------------------------------------------------
\* review_card under every source of learned words and every answer of
\* the AI service: the vocabulary is built up and one card is reviewed.  The
\* call reads the learned words and then waits for the AI service; add_card
\* calls of other threads go on during the wait.  msg is the call in flight,
\* last the call once it has returned, replay the same call made with no
\* learned word at all.

MaxWords == 6

\* The n-th card of the vocabulary; its word is <<"w", n>>
WordCard(n) == Card(<<"c", n>>, <<"w", n>>, <<"s">>, Dt(0, 0), Dt(n, 0), "English")

Overrides == {None, Some(<<>>), Some([i \in 1..4 |-> <<"w", i>>]),
              Some([i \in 1..5 |-> <<"w", i>>])}

StoredWords == Cardinality(DOMAIN db.vocabulary)

InitSentence ==
    /\ chain = EmptyChain
    /\ last = None
    /\ replay = None
    /\ clock = 0
    /\ tz = 0
    /\ db = EmptyDb
    /\ demo = NewDemo
    /\ msg = None

SentenceAddCard ==
    /\ last = None
    /\ StoredWords < MaxWords
    /\ db' = add_card(db, WordCard(StoredWords + 1))
    /\ UNCHANGED <<chain, last, replay, clock, tz, demo, msg>>

\* review_card up to learned_words = get_learned_vocabulary() (None: the
\* read raises)
SentenceRead ==
    /\ last = None
    /\ msg = None
    /\ \E card \in DbCards, rating \in Rating, override \in Overrides,
          vocabulary_read \in {None} \cup {Some(l) : l \in get_learned_vocabulary(db)} :
          msg' = Some([card |-> card, rating |-> rating, override |-> override,
                       vocabulary_read |-> vocabulary_read])
    /\ UNCHANGED <<chain, last, replay, clock, tz, db, demo>>

\* The AI service answers or raises, and review_card returns
SentenceReview ==
    /\ last = None
    /\ msg # None
    /\ \E ivl \in ReviewIntervalDays, ai \in AiAnswers :
          LET call == Get(msg)
              env == [uuid |-> "u1", ivl |-> ivl,
                      learned |-> learned_words(call.override, call.vocabulary_read),
                      ai |-> ai]
              bare == [uuid |-> "u1", ivl |-> ivl, learned |-> Some(<<>>), ai |-> None]
              now == Dt(SecondsPerDay, 0)
          IN  /\ last' = Some([card |-> call.card, rating |-> call.rating, now |-> now,
                               result |-> review_card(call.card, call.rating, now, env),
                               override |-> call.override,
                               vocabulary_read |-> call.vocabulary_read, ai |-> ai])
              /\ replay' = Some(review_card(call.card, call.rating, now, bare))
    /\ msg' = None
    /\ UNCHANGED <<chain, clock, tz, db, demo>>

SentenceNext == SentenceAddCard \/ SentenceRead \/ SentenceReview

SpecSentence == InitSentence /\ [][SentenceNext]_vars

----------------------------------------------------------------------------
\* The AI services and their factory, one call per run.  last is the call.

MaxListed == 2

OpenAIModels == {Model("gpt-4", 0), Model("gpt-4", 1), Model("gpt-3.5-turbo", 0),
                 Model("davinci", 0)}
GeminiModels == {Model("models/gemini-2.5-flash-lite", 0),
                 Model("models/gemini-2.5-flash-lite", 1),
                 Model("models/gemini-1.5-pro", 0), Model("models/embedding", 0)}
Generated == {None, Some(<<"g">>), Some(<<" ", "\"", "g", "\"">>)}

\* The lists of at most MaxListed different models, and None
Listings(models) ==
    {None} \cup
    {Some(l) : l \in {x \in UNION {[1..n -> models] : n \in 0..MaxListed} :
                         \A i, j \in DOMAIN x : i # j => x[i] # x[j]}}

ServiceNames == {OPENAI, GEMINI, <<"O", "p", "e", "n", "A", "I">>,
                 <<"G", "E", "M", "I", "N", "I">>, <<"G", "e", "m", "i", "n", "i">>,
                 <<"i", "n", "v", "a", "l", "i", "d">>, <<>>,
                 <<"o", "p", "e", "n">>, <<"o", "p", "e", "n", "a", "i", " ">>}

InitAi ==
    /\ chain = EmptyChain
    /\ last = None
    /\ replay = None
    /\ clock = 0
    /\ tz = 0
    /\ db = EmptyDb
    /\ demo = NewDemo
    /\ msg = None

AiCreateService ==
    /\ last = None
    /\ \E service_type \in ServiceNames :
          last' = Some([op |-> "create_service", service_type |-> service_type,
                        returned |-> create_service(service_type),
                        service |-> created_service(service_type)])
    /\ UNCHANGED <<chain, replay, clock, tz, db, demo, msg>>

AiGenerateOpenAI ==
    /\ last = None
    /\ \E client_ok \in BOOLEAN, listing \in Listings(OpenAIModels),
          gen \in [OpenAIModels -> Generated] :
          last' = Some([op |-> "OpenAIService.generate_sentence_variation",
                        listing |-> listing, gen |-> gen, client_ok |-> client_ok,
                        word |-> <<"w">>, language |-> "English",
                        result |-> openai_generate_sentence_variation(
                                       <<"w">>, "English", client_ok, listing, gen)])
    /\ UNCHANGED <<chain, replay, clock, tz, db, demo, msg>>

AiGenerateGemini ==
    /\ last = None
    /\ \E listing \in Listings(GeminiModels), gen \in [GeminiModels -> Generated] :
          \E supports \in SUBSET (IF listing = None THEN {}
                                  ELSE {Get(listing)[i] : i \in DOMAIN Get(listing)}) :
              last' = Some([op |-> "GeminiService.generate_sentence_variation",
                            listing |-> listing, gen |-> gen, client_ok |-> TRUE,
                            supports |-> supports,
                            word |-> <<"w">>, language |-> "English",
                            result |-> gemini_generate_sentence_variation(
                                           <<"w">>, "English", listing, supports, gen)])
    /\ UNCHANGED <<chain, replay, clock, tz, db, demo, msg>>

AiNext == AiCreateService \/ AiGenerateOpenAI \/ AiGenerateGemini

SpecAi == InitAi /\ [][AiNext]_vars

----------------------------------------------------------------------------
\* Concurrent callers: review_card calls for different cards in flight at
\* the same time on one FSRSScheduler, one AI service and one database.
\* Here `last` maps each caller to the frame of its call, `replay` holds
\* the library results (the variable updated_fsrs_card), `msg` is the
\* client the shared AI service was last configured with (self.client,
\* genai.configure), `demo.scheduler` is the shared scheduler and
\* `demo.ai_service_type` tells which service is shared.  Every request to
\* the service is a step of its own: the caller waits for the answer and the
\* other caller runs meanwhile.

\* The longest list of models one call tries in turn
MaxModelsToTry == 2

Callers == {1, 2}
CallerCard(t) == Card(<<"c", ToString(t)>>, <<"w", ToString(t)>>, <<"s">>,
                      Dt(0, 0), Dt(0, 0), "English")
\* The card of caller t, new or already reviewed once
CallerCards(t) ==
    {CallerCard(t),
     Get(review_card(CallerCard(t), GOOD, Dt(0, 0),
                     [uuid |-> "u1", ivl |-> 1, learned |-> Some(<<>>),
                      ai |-> None]).card)}
CallerKey(t) == <<"k", ToString(t)>>
CallerOverrides == {None, Some([i \in 1..5 |-> <<"w", i>>])}
CallerRatings == {AGAIN, GOOD}

Frame(t, card, rating, override) ==
    [pc |-> "fsrs", card |-> card, rating |-> rating,
     now |-> Dt(SecondsPerDay, 0), ai_api_key |-> CallerKey(t),
     mastered_words_override |-> override,
     ivl |-> 0, learned |-> <<>>, ai |-> None, listed_with |-> None,
     client |-> None, models_to_try |-> 0, attempt |-> 0,
     new_sentence |-> <<>>, result |-> None]

\* Variant: the library result is kept on the shared scheduler object
updated_fsrs_card_OnScheduler(t) == 1

\* updated_fsrs_card is a local variable: each call has its own
updated_fsrs_card(t) == t

InitConcurrent ==
    /\ chain = EmptyChain
    /\ last \in {[t \in Callers |-> Frame(t, c[t], r[t], o[t])] :
                    c \in {x \in [Callers -> UNION {CallerCards(t) : t \in Callers}] :
                              \A t \in Callers : x[t] \in CallerCards(t)},
                    r \in [Callers -> CallerRatings], o \in [Callers -> CallerOverrides]}
    /\ replay = [t \in Callers |-> None]
    /\ clock = 0
    /\ tz = 0
    /\ db = add_card(add_card(EmptyDb, CallerCard(1)), CallerCard(2))
    /\ demo \in {[NewDemo EXCEPT !.ai_service_type = s] : s \in {OPENAI, GEMINI}}
    /\ msg = None

\* self._fsrs.review_card(fsrs_card, rating, now, None)
ConcFsrs(t) ==
    /\ last[t].pc = "fsrs"
    /\ \E ivl \in ReviewIntervalDays :
          /\ replay' = [replay EXCEPT ![updated_fsrs_card(t)] =
                           Some(fsrs_review_card(FSRS_Card(last[t].card), last[t].rating,
                                                 replace_utc(last[t].now).wall, ivl))]
          /\ last' = [last EXCEPT ![t].pc = "vocabulary", ![t].ivl = ivl]
    /\ UNCHANGED <<chain, clock, tz, db, demo, msg>>

\* _generate_new_sentence: the learned words; fewer than five end the call
\* with the original sentence.  OpenAIService sets its client first,
\* GeminiService lists the models first.
ConcVocabulary(t) ==
    /\ last[t].pc = "vocabulary"
    /\ \E vocabulary_read \in get_learned_vocabulary(db) :
          LET learned == Get(learned_words(last[t].mastered_words_override,
                                           Some(vocabulary_read)))
          IN  last' = [last EXCEPT
                          ![t].learned = learned,
                          ![t].new_sentence = last[t].card.original_sentence,
                          ![t].pc = IF Len(learned) < MinLearnedWords THEN "build"
                                    ELSE IF demo.ai_service_type = OPENAI THEN "client"
                                    ELSE "list"]
    /\ UNCHANGED <<chain, replay, clock, tz, db, demo, msg>>

\* generate_sentence_variation has ended for caller t: ai is the sentence it
\* returned, None if it raised
Answered(t, ai) ==
    [last EXCEPT ![t].ai = ai,
                 ![t].new_sentence =
                     generate_new_sentence(last[t].card.original_sentence,
                                           Some(last[t].learned), ai),
                 ![t].pc = "build"]

\* self.client = _get_openai_client(api_key), which may raise;
\* self.client = _get_gemini_client(api_key, model_name) with its
\* genai.configure(api_key=api_key), before each generation request
ConcClient(t) ==
    /\ last[t].pc = "client"
    /\ IF demo.ai_service_type = OPENAI
       THEN \E built \in BOOLEAN :
               IF built
               THEN /\ msg' = Some(last[t].ai_api_key)
                    /\ last' = [last EXCEPT ![t].pc = "list"]
               ELSE /\ msg' = msg
                    /\ last' = Answered(t, None)
       ELSE /\ msg' = Some(last[t].ai_api_key)
            /\ last' = [last EXCEPT ![t].pc = "generate"]
    /\ UNCHANGED <<chain, replay, clock, tz, db, demo>>

\* self.client.models.list() / genai.list_models(): the request goes through
\* the client configured at that moment.  listing is the length of
\* models_to_try it leads to, None if the request raises: OpenAIService then
\* goes on with its preferred families, GeminiService's call ends with the
\* exception.  With no model to try the call returns the fallback sentence.
ConcList(t) ==
    /\ last[t].pc = "list"
    /\ \E listing \in {None} \cup {Some(n) : n \in 0..MaxModelsToTry} :
          LET n == IF listing = None THEN Len(OpenAIFamilies) ELSE Get(listing)
              fallback == Some(FallbackSentence(last[t].card.word,
                                                last[t].card.language))
          IN  IF listing = None /\ demo.ai_service_type = GEMINI
              THEN last' = [Answered(t, None) EXCEPT ![t].listed_with = msg]
              ELSE IF n = 0
              THEN last' = [Answered(t, fallback) EXCEPT ![t].listed_with = msg]
              ELSE last' = [last EXCEPT ![t].listed_with = msg,
                                        ![t].models_to_try = n,
                                        ![t].attempt = 1,
                                        ![t].pc = IF demo.ai_service_type = OPENAI
                                                  THEN "generate" ELSE "client"]
    /\ UNCHANGED <<chain, replay, clock, tz, db, demo, msg>>

\* self.client.chat.completions.create(...) / self.client.generate_content(...):
\* one request through the client configured at that moment.  The service
\* answers, or the request raises and the next model is tried; after the
\* last model the fallback sentence is returned.
ConcGenerate(t) ==
    /\ last[t].pc = "generate"
    /\ \E ai \in AiAnswers :
          LET f == [last EXCEPT ![t].client = msg]
          IN  IF ai # None
              THEN last' = [Answered(t, ai) EXCEPT ![t].client = msg]
              ELSE IF last[t].attempt < last[t].models_to_try
              THEN last' = [f EXCEPT ![t].attempt = @ + 1,
                                     ![t].pc = IF demo.ai_service_type = OPENAI
                                               THEN "generate" ELSE "client"]
              ELSE last' = [Answered(t, Some(FallbackSentence(last[t].card.word,
                                                              last[t].card.language)))
                            EXCEPT ![t].client = msg]
    /\ UNCHANGED <<chain, replay, clock, tz, db, demo, msg>>

\* Card(...), ReviewLog(...), return
ConcBuild(t) ==
    /\ last[t].pc = "build"
    /\ \E uuid \in UuidPool :
          LET f == last[t]
              u == Get(replay[updated_fsrs_card(t)])
          IN  last' = [last EXCEPT
                          ![t].pc = "done",
                          ![t].result =
                              Some([card |-> UpdatedCard(f.card, u, f.new_sentence, f.now),
                                    log |-> NewReviewLog(f.card, u, f.rating, f.now, uuid)])]
    /\ UNCHANGED <<chain, replay, clock, tz, db, demo, msg>>

ConcurrentNext ==
    \E t \in Callers :
        \/ ConcFsrs(t)
        \/ ConcVocabulary(t)
        \/ ConcClient(t)
        \/ ConcList(t)
        \/ ConcGenerate(t)
        \/ ConcBuild(t)

SpecConcurrent == InitConcurrent /\ [][ConcurrentNext]_vars

----------------------------------------------------------------------------
\* Concurrent callbacks of the demo: start_review and submit_review
\* handlers in flight at the same time on the one MorphCardsDemo object.
\* Here `last` maps each handler thread to its position in submit_review
\* and the card it read, `chain.cards` lists, for every review written to
\* the database, the card state it was computed from.

CallbackInputs == {<<"3">>, <<"1">>, <<"5">>, <<"a">>}
Idle == [pc |-> "idle", rating_input |-> <<>>, card |-> None]

InitCallbacks ==
    /\ chain = EmptyChain
    /\ last = [t \in Callers |-> Idle]
    /\ replay = None
    /\ clock = 0
    /\ tz = 0
    /\ db \in {EmptyDb, add_card(EmptyDb, CallerCard(1))}
    /\ demo = GeminiDemo
    /\ msg = None

\* start_review(): one handler run
CbStartReview(t) ==
    /\ last[t].pc = "idle"
    /\ \E pick \in DueIds(db, Dt(clock, 0)) \cup {<<>>} :
          /\ pick = <<>> <=> DueIds(db, Dt(clock, 0)) = {}
          /\ Apply(start_review(demo, db, Dt(clock, 0), pick))
    /\ UNCHANGED <<chain, last, replay, clock, tz>>

\* submit_review: if not self.current_card
CbSubmitCheck(t) ==
    /\ last[t].pc = "idle"
    /\ \E rating_input \in CallbackInputs :
          IF demo.current_card = None
          THEN /\ msg' = Some(submit_review(demo, db, rating_input, Dt(clock, 0),
                                            Env("u1", 1, <<>>, None)).msg)
               /\ UNCHANGED last
          ELSE /\ last' = [last EXCEPT ![t] = [pc |-> "checked",
                                               rating_input |-> rating_input,
                                               card |-> None]]
               /\ UNCHANGED msg
    /\ UNCHANGED <<chain, replay, clock, tz, db, demo>>

\* submit_review: int(rating_input), the range and the API key checks, then
\* the arguments of the review_card call: card=self.current_card
CbSubmitRead(t) ==
    /\ last[t].pc = "checked"
    /\ LET parsed == ParseInt(last[t].rating_input)
       IN  IF \/ parsed = None
              \/ Get(parsed) \notin {1, 2, 3, 4}
              \/ demo.api_key = <<>>
              \/ ~create_service(demo.ai_service_type)
           THEN /\ msg' = Some(submit_review([demo EXCEPT !.current_card =
                                                 Some(CallerCard(1))],
                                             db, last[t].rating_input, Dt(clock, 0),
                                             Env("u1", 1, <<>>, None)).msg)
                /\ last' = [last EXCEPT ![t] = Idle]
           ELSE /\ last' = [last EXCEPT ![t].pc = "calling",
                                        ![t].card = demo.current_card]
                /\ UNCHANGED msg
    /\ UNCHANGED <<chain, replay, clock, tz, db, demo>>

\* submit_review: scheduler.review_card(...), update_card, add_review_log,
\* self.current_card = None; every exception ends in 'Error during review'
CbSubmitCall(t) ==
    /\ last[t].pc = "calling"
    /\ \E uuid \in UuidPool, ivl \in ReviewIntervalDays, ai \in AiAnswers,
          learned \in get_learned_vocabulary(db) :
          LET o == IF last[t].card = None
                   THEN Outcome("submit_review", "Error during review",
                                last[t].rating_input, FALSE, db, demo)
                   ELSE submit_review([demo EXCEPT !.current_card = last[t].card], db,
                                      last[t].rating_input, Dt(clock, 0),
                                      Env(uuid, ivl, learned, ai))
              written == o.msg.text = "Review completed!"
          IN  /\ msg' = Some(o.msg)
              /\ db' = o.db
              /\ demo' = IF written THEN [demo EXCEPT !.current_card = None] ELSE demo
              /\ chain' = IF written
                          THEN [chain EXCEPT !.cards = Append(@, Get(last[t].card))]
                          ELSE chain
    /\ last' = [last EXCEPT ![t] = Idle]
    /\ UNCHANGED <<replay, clock, tz>>

CallbacksNext ==
    \/ SetCurrentCard
    \/ \E t \in Callers :
          \/ CbStartReview(t)
          \/ CbSubmitCheck(t)
          \/ CbSubmitRead(t)
          \/ CbSubmitCall(t)

SpecCallbacks == InitCallbacks /\ [][CallbacksNext]_vars

----------------------------------------------------------------------------
\* The demo's callbacks and the functions of cli.py called on one database,
\* one operation at a time; CliMain is the command line itself

InitOps ==
    /\ chain = EmptyChain
    /\ last = None
    /\ replay = None
    /\ clock = 0
    /\ tz = 0
    /\ db = EmptyDb
    /\ demo = GeminiDemo
    /\ msg = None

CliAddCard ==
    /\ \E word \in DemoWords, sentence \in DemoSentences, language \in Languages :
          Apply(cli_add_card(demo, db, word, sentence, language,
                             Dt(clock, 0), ToString(clock)))
    /\ UNCHANGED <<chain, last, replay, clock, tz>>

CliReviewCards ==
    /\ \E ai_service_type \in {OPENAI, GEMINI}, api_key \in ApiKeyInputs,
          env_key \in {<<>>, <<"k">>} :
          Apply(cli_review_cards(demo, db, ai_service_type, api_key, env_key,
                                 Dt(clock, 0)))
    /\ UNCHANGED <<chain, last, replay, clock, tz>>

\* The add and review commands from the command line
CliMain ==
    /\ \E word \in DemoWords, sentence \in DemoSentences, language \in Languages,
          ai_service_type \in {OPENAI, GEMINI}, api_key \in ApiKeyInputs,
          env_key \in {<<>>, <<"k">>} :
          \E ran \in {cli_add_card(demo, EmptyDb, word, sentence, language,
                                   Dt(clock, 0), ToString(clock)),
                       cli_review_cards(demo, EmptyDb, ai_service_type, api_key,
                                        env_key, Dt(clock, 0))} :
              Apply(cli_main(demo, db, ran))
    /\ UNCHANGED <<chain, last, replay, clock, tz>>

OpsNext ==
    \/ DemoAddCard
    \/ DbAddCard
    \/ StartReview
    \/ SetCurrentCard
    \/ SubmitReview
    \/ CliAddCard
    \/ CliReviewCards
    \/ CliMain

SpecOps == InitOps /\ [][OpsNext]_vars

----------------------------------------------------------------------------
\* The vocabulary table under add_card, update_card and add_review_log,
\* with cards whose word may differ from call to call.  `clock` counts the
\* calls made.

VocCards ==
    {[Card(id, word, <<"s">>, Dt(0, 0), Dt(t, 0), "English")
         EXCEPT !.review_count = n] :
        id \in CardIds, word \in Words, t \in DbTimes, n \in {0, 1}}

VocLogs ==
    {[id |-> u, card_id |-> id, review_time |-> Dt(t, 0), rating |-> GOOD,
      interval |-> 0, stability |-> <<>>, difficulty |-> <<>>] :
        u \in UuidPool, id \in CardIds, t \in DbTimes}

InitVocabulary ==
    /\ chain = EmptyChain
    /\ last = None
    /\ replay = None
    /\ clock = 0
    /\ tz = 0
    /\ db = EmptyDb
    /\ demo = NewDemo
    /\ msg = None

VocAddCard ==
    /\ clock < MaxDbWrites
    /\ \E card \in VocCards :
          /\ db' = add_card(db, card)
          /\ last' = Some([op |-> "add_card", card |-> card])
    /\ clock' = clock + 1
    /\ UNCHANGED <<chain, replay, tz, demo, msg>>

VocUpdateCard ==
    /\ clock < MaxDbWrites
    /\ \E card \in VocCards :
          /\ db' = update_card(db, card)
          /\ last' = Some([op |-> "update_card", card |-> card])
    /\ clock' = clock + 1
    /\ UNCHANGED <<chain, replay, tz, demo, msg>>

VocAddReviewLog ==
    /\ clock < MaxDbWrites
    /\ \E log \in VocLogs :
          /\ db' = add_review_log(db, log).db
          /\ last' = Some([op |-> "add_review_log", log |-> log,
                           raised |-> add_review_log(db, log).raised])
    /\ clock' = clock + 1
    /\ UNCHANGED <<chain, replay, tz, demo, msg>>

VocabularyNext == VocAddCard \/ VocUpdateCard \/ VocAddReviewLog

SpecVocabulary == InitVocabulary /\ [][VocabularyNext]_vars

----------------------------------------------------------------------------
\* Properties

LastOk == last # None /\ Get(last).result.ok
LastCard == Get(Get(last).result.card)
\* The interval the scheduler added to the review time
WallInterval(card, now) == replace_utc(card.due_date).wall - replace_utc(now).wall

\* C1: every successful review_card returns a card whose review_count is
\* the input card's review_count plus one, so the card returned by the
\* n-th review in a row of a card that started at 0 has review_count n.
C1_ReviewCountPlusOne ==
    /\ LastOk => LastCard.review_count = Get(last).card.review_count + 1
    /\ \A k \in 1..Len(chain.cards) : chain.cards[k].review_count = k - 1

C1_Witness == Reviews >= 3 /\ LastOk /\ CurrentCard.review_count = Reviews

\* C2: a submit_review that ends in an error outcome leaves the cards and
\* review_logs tables (the whole database) exactly as they were.
C2_FailedSubmitKeepsStore ==
    [][(/\ msg' # None
        /\ Get(msg').op = "submit_review"
        /\ Get(msg').text # "Review completed!") => db' = db]_vars

C2_Witness ==
    /\ msg # None
    /\ Get(msg).op = "submit_review"
    /\ Get(msg).text = "Error during review"
    /\ demo.current_card # None
    /\ DOMAIN db.cards # {}

\* C3: with a card selected, submit_review of an integer outside 1..4
\* answers 'Please enter a rating between 1 and 4.' without invoking the
\* scheduler; and review_card itself, given such a rating, raises instead
\* of returning a card and a log.
C3_InvalidRatingRejected ==
    /\ (/\ msg # None
        /\ Get(msg).op = "submit_review"
        /\ demo.current_card # None
        /\ ParseInt(Get(msg).input) # None
        /\ Get(ParseInt(Get(msg).input)) \notin Rating)
       => (/\ Get(msg).text = "Please enter a rating between 1 and 4."
           /\ ~Get(msg).scheduler_invoked)
    /\ (last # None /\ Get(last).rating \notin Rating)
       => (/\ ~Get(last).result.ok
           /\ Get(last).result.card = None
           /\ Get(last).result.log = None)

C3_Witness ==
    /\ last # None
    /\ Get(last).rating = 5
    /\ ~Get(last).result.ok
    /\ msg # None
    /\ Get(msg).op = "submit_review"
    /\ Get(msg).input = <<"5">>
    /\ Get(msg).text = "Please enter a rating between 1 and 4."

\* C4: for every card constructed with the Card defaults and reviewed with
\* review_card, the state is New exactly when review_count is 0.
C4_NewIffUnreviewed ==
    \A k \in 1..Len(chain.cards) :
        (chain.cards[k].state = "New") <=> (chain.cards[k].review_count = 0)

Paired(x) == (x.stability = None) <=> (x.difficulty = None)

\* C5: stability and difficulty are both present or both absent, on every
\* card of the caller and every stored row; they are absent before the
\* first review and present after it.
C5_StabilityDifficultyPaired ==
    /\ \A k \in 1..Len(chain.cards) :
          /\ Paired(chain.cards[k])
          /\ (chain.cards[k].stability = None) <=> (chain.cards[k].review_count = 0)
    /\ \A id \in DOMAIN db.cards : Paired(db.cards[id])

C5_Witness ==
    /\ Reviews >= 2
    /\ chain.cards[1].stability = None /\ chain.cards[1].difficulty = None
    /\ chain.cards[2].stability # None /\ chain.cards[2].difficulty # None
    /\ db.cards[CurrentCard.id].stability # None
    /\ db.cards[CurrentCard.id].difficulty # None

\* C6: after a successful review at time now the returned card has
\* last_reviewed = now and due_date >= last_reviewed (as instants).
C6_DueNotBeforeLastReviewed ==
    LastOk => (/\ LastCard.last_reviewed = Some(Get(last).now)
               /\ Instant(LastCard.due_date) >= Instant(Get(LastCard.last_reviewed)))

\* C7: a review_card call leaves the card it was given and every table of
\* the database unchanged.
C7_ReviewHasNoSideEffects ==
    [][chain'.ratings # chain.ratings =>
          (/\ db' = db
           /\ Get(last').card = CurrentCard
           /\ SubSeq(chain'.cards, 1, Len(chain.cards)) = chain.cards)]_vars

C7_Witness ==
    /\ LastOk
    /\ Reviews >= 1
    /\ DOMAIN db.cards # {}
    /\ DOMAIN db.vocabulary # {}

\* C8: two independent runs of review_card on the same (card, rating, now)
\* return identical cards and identical review logs, log id included.
C8_ReplayIdentical ==
    (replay # None) => (Get(replay) = Get(last).result)

GrewFrom(before, after) ==
    /\ Len(after) = Len(before) + 1
    /\ SubSeq(after, 1, Len(before)) = before
    /\ StabilityDirection(after) = "up"
ShrankFrom(before, after) ==
    /\ Len(after) = Len(before) + 1
    /\ SubSeq(after, 1, Len(before)) = before
    /\ StabilityDirection(after) = "down"
Scenario1 == Reviews >= 1 /\ chain.ratings[1] = GOOD
Scenario2 ==
    /\ Scenario1
    /\ Reviews >= 2
    /\ chain.ratings[2] = GOOD
    /\ Instant(chain.nows[2]) = Instant(chain.nows[1]) + SecondsPerDay
Scenario3 ==
    /\ Scenario2
    /\ Reviews >= 3
    /\ chain.ratings[3] = AGAIN
    /\ Instant(chain.nows[3]) = Instant(chain.cards[3].due_date)

\* C9: a new card reviewed Good at t0 is in Learning, enters its next
\* review with step 1 and is due in less than a day; reviewed Good at
\* t0 + 1 day it is in Review with stability above the first review's and
\* due in at least one day; reviewed Again at that due date it is in
\* Relearning with stability below the one before the failure.
C9_Lifecycle ==
    /\ Scenario1 =>
          /\ chain.cards[2].state = "Learning"
          /\ FSRS_Card(chain.cards[2]).step = 1
          /\ WallInterval(chain.cards[2], chain.nows[1]) > 0
          /\ WallInterval(chain.cards[2], chain.nows[1]) < SecondsPerDay
    /\ Scenario2 =>
          /\ chain.cards[3].state = "Review"
          /\ GrewFrom(Get(chain.cards[2].stability), Get(chain.cards[3].stability))
          /\ WallInterval(chain.cards[3], chain.nows[2]) >= SecondsPerDay
    /\ Scenario3 =>
          /\ chain.cards[4].state = "Relearning"
          /\ ShrankFrom(Get(chain.cards[3].stability), Get(chain.cards[4].stability))

C9_Witness == Scenario3 /\ chain.cards[4].state = "Relearning"

\* C10: a rating of Again on a card in Learning keeps it in Learning and
\* resets the step with which it enters its next review to the first
\* step, so that a following Hard cannot graduate it, however many
\* reviews the card has had.
C10_AgainRestartsLearning ==
    \A k \in 1..Reviews :
        (chain.cards[k].state = "Learning" /\ chain.ratings[k] = AGAIN) =>
            /\ chain.cards[k + 1].state = "Learning"
            /\ FSRS_Card(chain.cards[k + 1]).step <= 1
            /\ (k < Reviews /\ chain.ratings[k + 1] = HARD)
                   => chain.cards[k + 2].state = "Learning"

LastLog == Get(Get(last).result.log)

\* C11: a card in Review rated Again moves to Relearning, enters its next
\* review with step 1 and is due in less than a day; rated Hard, Good or
\* Easy it stays in Review; no rating moves it to Learning or New.
C11_ReviewTransitions ==
    \A k \in 1..Reviews :
        chain.cards[k].state = "Review" =>
            IF chain.ratings[k] = AGAIN
            THEN /\ chain.cards[k + 1].state = "Relearning"
                 /\ FSRS_Card(chain.cards[k + 1]).step = 1
                 /\ WallInterval(chain.cards[k + 1], chain.nows[k]) > 0
                 /\ WallInterval(chain.cards[k + 1], chain.nows[k]) < SecondsPerDay
            ELSE chain.cards[k + 1].state = "Review"

\* Index of the card with which the Learning/Relearning/Review phase of
\* the k-th card of the chain began
PhaseStart(k) ==
    CHOOSE j \in 1..k :
        /\ j = 1 \/ chain.cards[j].state # chain.cards[j - 1].state
        /\ \A i \in (j + 1)..k : chain.cards[i].state = chain.cards[i - 1].state

\* C12: the step with which a card enters a review counts the learning
\* steps taken in its current Learning/Relearning phase (so it is at most
\* the number of reviews since the phase began) and is 0 for a card in
\* Review; it is not the total number of reviews.
C12_StepCountsPhase ==
    \A k \in 1..Len(chain.cards) :
        /\ chain.cards[k].state = "Review" => FSRS_Card(chain.cards[k]).step = 0
        /\ FSRS_Card(chain.cards[k]).step <= k - PhaseStart(k) + 1

\* C13: a successful review_card returns one review log whose card_id is
\* the reviewed card's id, whose review_time is now, whose rating is the
\* rating given and whose stability and difficulty are those of the
\* updated card returned by the same call.
C13_LogMatchesReview ==
    LastOk =>
        /\ Get(last).result.log # None
        /\ Len(Get(last).result.log) = 1
        /\ LastLog.card_id = Get(last).card.id
        /\ LastLog.review_time = Get(last).now
        /\ LastLog.rating = Get(last).rating
        /\ Some(LastLog.stability) = LastCard.stability
        /\ Some(LastLog.difficulty) = LastCard.difficulty

C13_Witness ==
    /\ LastOk
    /\ Reviews >= 2
    /\ LastLog.rating = HARD
    /\ Len(LastLog.stability) = 2
    /\ LastLog.card_id = CurrentCard.id

ElapsedDays(card, now) ==
    IF Instant(now) > Instant(card.due_date)
    THEN DaysOf(Instant(now) - Instant(card.due_date)) ELSE 0

\* C14: the time value recorded in the review log is the elapsed time, in
\* days, from the due date the card had before the review to now (never
\* negative), and 0 on the card's first review.
C14_LogRecordsElapsedDays ==
    LastOk =>
        LastLog.interval = IF Get(last).card.last_reviewed = None THEN 0
                           ELSE ElapsedDays(Get(last).card, Get(last).now)

LastOp(op) == last # None /\ Get(last).op = op

\* C15: a stored review log stays: after every storage call on the open
\* database (add_card, update_card, add_review_log and the reads) each log
\* stored before is still returned by get_review_history with the same
\* fields, and the number of logs grows by one on a successful
\* add_review_log and is unchanged by every other call.
C15_LogsAppendOnly ==
    [][Connected(db') =>
       /\ \A id \in DOMAIN db.review_logs :
             \A h \in get_review_history(db', None) :
                 \E i \in 1..Len(h) : h[i] = ReviewLogFromRow(id, db.review_logs[id])
       /\ Cardinality(DOMAIN db'.review_logs) =
             Cardinality(DOMAIN db.review_logs) +
             (IF /\ db' # db
                 /\ last' # None
                 /\ Get(last').op = "add_review_log"
                 /\ ~Get(last').raised
              THEN 1 ELSE 0)]_vars

C15_Witness ==
    /\ LastOp("get_review_history")
    /\ Get(last).card_id = None
    /\ Len(Get(last).result) >= 2
    /\ Len(chain.cards) >= 2
    /\ \E id \in DOMAIN db.cards : db.cards[id].review_count > 0

SameCard(g, c) ==
    /\ g.id = c.id
    /\ g.word = c.word
    /\ g.stability = c.stability
    /\ g.difficulty = c.difficulty
    /\ g.state = c.state
    /\ Instant(g.due_date) = Instant(c.due_date)
    /\ (g.last_reviewed = None) <=> (c.last_reviewed = None)
    /\ g.last_reviewed # None =>
          Instant(Get(g.last_reviewed)) = Instant(Get(c.last_reviewed))
    /\ g.review_count = c.review_count
    /\ g.language = c.language

\* C16: get_card(c.id) after add_card(c) or update_card(c) returns a card
\* equal to c in id, word, stability, difficulty, state, due_date,
\* last_reviewed, review_count and language, and so is every card
\* returned by get_due_cards.
C16_RoundTrip ==
    /\ LastOp("get_card") =>
          /\ ~Get(last).result.raised
          /\ Get(last).result.card # None
          /\ SameCard(Get(Get(last).result.card), Get(last).card)
    /\ LastOp("get_due_cards") /\ Get(last).language = None =>
          /\ ~Get(last).result.raised
          /\ \A id \in Get(last).result.ids :
                SameCard(CardFromRow(db.cards[id]), StoredCard(id))

StoredIds == {chain.cards[i].id : i \in 1..Len(chain.cards)}

\* C17: get_due_cards(now) returns exactly the stored cards with due_date
\* at or before now; with a language, exactly those of that language.
C17_DueCardsExact ==
    LastOp("get_due_cards") =>
        /\ ~Get(last).result.raised
        /\ Get(last).result.ids =
              {id \in StoredIds :
                  /\ Instant(StoredCard(id).due_date) <= Instant(Get(last).now)
                  /\ Get(last).language # None =>
                        StoredCard(id).language = Get(Get(last).language)}

\* C18: get_review_history, for one card or for all, returns the logs
\* from the oldest review_time to the newest.
C18_HistoryChronological ==
    LastOp("get_review_history") =>
        \A i, j \in 1..Len(Get(last).result) :
            i < j => Instant(Get(last).result[i].review_time)
                        <= Instant(Get(last).result[j].review_time)

OptimizeOps == {"demo.optimize_parameters", "cli.optimize_parameters"}
InsufficientTexts == {"Need at least 10 reviews to optimize parameters.",
                      "Need at least 10 reviews to optimize parameters"}

\* C19: optimize_parameters with fewer than 10 stored review logs ends
\* with the need-at-least-10-reviews outcome without entering the
\* optimizer; the optimizer is entered only with 10 or more logs; and
\* the scheduler in use keeps its parameter vector.
C19_OptimizeNeedsHistory ==
    /\ demo.scheduler.parameters = DefaultParameters
    /\ (msg # None /\ Get(msg).op \in OptimizeOps) =>
          /\ StoredLogs < 10 =>
                (Get(msg).text \in InsufficientTexts /\ ~Get(msg).optimizer_run)
          /\ Get(msg).optimizer_run => StoredLogs >= 10
          /\ Get(msg).text \in InsufficientTexts => StoredLogs < 10

C19_Witness ==
    /\ msg # None
    /\ Get(msg).op = "demo.optimize_parameters"
    /\ StoredLogs = 9
    /\ Get(msg).text = "Need at least 10 reviews to optimize parameters."

SchedulingFields(card) ==
    [stability |-> card.stability, difficulty |-> card.difficulty,
     state |-> card.state, due_date |-> card.due_date,
     review_count |-> card.review_count]

LastLearned == learned_words(Get(last).override, Get(last).vocabulary_read)

\* C20: whatever the learned words and the AI service do, review_card
\* returns; the sentence of the updated card is the original sentence
\* when fewer than 5 learned words are available or reading them or the
\* AI service raises, else the AI service's sentence; and stability,
\* difficulty, state, due_date and review_count do not depend on it.
C20_SentenceNeverFailsReview ==
    last # None =>
        /\ Get(last).result.ok
        /\ LastCard.sentence =
              IF \/ LastLearned = None
                 \/ Len(Get(LastLearned)) < 5
                 \/ Get(last).ai = None
              THEN Get(last).card.original_sentence
              ELSE Get(Get(last).ai)
        /\ SchedulingFields(LastCard) = SchedulingFields(Get(Get(replay).card))

C20_Witness ==
    /\ last # None
    /\ Get(last).override = None
    /\ Get(last).vocabulary_read # None
    /\ Len(Get(Get(last).vocabulary_read)) >= 5
    /\ Get(last).ai = None
    /\ Get(last).result.ok
    /\ LastCard.sentence = Get(last).card.original_sentence
    /\ LastCard.state = "Review"

GenerateOps == {"OpenAIService.generate_sentence_variation",
                "GeminiService.generate_sentence_variation"}

\* C21: generate_sentence_variation of either service, its client
\* constructed, returns a sentence and does not raise, whatever the remote
\* API does; when every model fails to generate, or none of the listed
\* models is suitable, the sentence is the template fallback.
C21_GenerateAlwaysReturns ==
    (last # None /\ Get(last).op \in GenerateOps /\ Get(last).client_ok) =>
        /\ ~Get(last).result.raised
        /\ Get(last).result.sentence # None
        /\ (\A m \in DOMAIN Get(last).gen : Get(last).gen[m] = None) =>
              Get(last).result.sentence =
                  Some(FallbackSentence(Get(last).word, Get(last).language))
        /\ Get(last).listing = Some(<<>>) =>
              Get(last).result.sentence =
                  Some(FallbackSentence(Get(last).word, Get(last).language))

\* name spells service in some letter case
SpellsService(name, service) ==
    /\ Len(name) = Len(service)
    /\ \A i \in 1..Len(name) :
          \/ name[i] = service[i]
          \/ \E k \in DOMAIN LowerLetters :
                LowerLetters[k] = service[i] /\ UpperLetters[k] = name[i]

\* C25: create_service returns a service exactly for the names of
\* get_available_services, in any letter case (the OpenAI service for
\* 'openai', the Gemini service for 'gemini'), and raises ValueError for
\* every other name.
C25_FactoryKnowsItsServices ==
    (last # None /\ Get(last).op = "create_service") =>
        /\ Get(last).returned <=>
              \E i \in DOMAIN get_available_services :
                  SpellsService(Get(last).service_type, get_available_services[i])
        /\ Get(last).returned <=> (Get(last).service # None)
        /\ SpellsService(Get(last).service_type, OPENAI) =>
              Get(last).service = Some("OpenAIService")
        /\ SpellsService(Get(last).service_type, GEMINI) =>
              Get(last).service = Some("GeminiService")

C25_Witness ==
    /\ last # None
    /\ Get(last).op = "create_service"
    /\ Get(last).service_type = <<"G", "e", "m", "i", "n", "i">>
    /\ Get(last).returned
    /\ Get(last).service = Some("GeminiService")

\* A submit_review call whose inputs pass every check of the handler: a card
\* is selected, the rating is one of 1..4, an API key is set and the service
\* type names a service
SubmitAccepted ==
    /\ msg' # None
    /\ Get(msg').op = "submit_review"
    /\ demo.current_card # None
    /\ ParseInt(Get(msg').input) # None
    /\ Get(ParseInt(Get(msg').input)) \in Rating
    /\ demo.api_key # <<>>
    /\ create_service(demo.ai_service_type)

\* C22: a submit_review on a selected card with an accepted rating completes,
\* persists exactly one card update and exactly one review log, both for the
\* selected card, and clears current_card; a submit_review with no card
\* selected answers 'No card to review' and persists nothing.
C22_SubmitPersistsOnce ==
    [][/\ SubmitAccepted =>
            /\ Get(msg').text = "Review completed!"
            /\ demo'.current_card = None
            /\ \E id \in UuidPool :
                  /\ id \notin DOMAIN db.review_logs
                  /\ DOMAIN db'.review_logs = DOMAIN db.review_logs \cup {id}
                  /\ db'.review_logs[id].card_id = Get(demo.current_card).id
            /\ \A c \in DOMAIN db.cards :
                  c # Get(demo.current_card).id => db'.cards[c] = db.cards[c]
       /\ (/\ msg' # None
           /\ Get(msg').op = "submit_review"
           /\ demo.current_card = None)
          => (/\ Get(msg').text = "No card to review. Please start a review first."
              /\ db' = db)]_vars

\* C23: add_card for a word that already has a stored card reports the card
\* as added, stores no second card and makes the stored card's sentence the
\* new (stripped) sentence.
C23_AddExistingWordUpdates ==
    [][\A c \in DOMAIN db.cards :
          (/\ msg' # None
           /\ Get(msg').op = "add_card"
           /\ Get(msg').text # "Please provide both word and sentence."
           /\ db.cards[c].word = Strip(Get(msg').input))
          => (/\ Get(msg').text = "Added card for word"
              /\ DOMAIN db'.cards = DOMAIN db.cards
              /\ \E sentence \in DemoSentences :
                    /\ Strip(sentence) # <<>>
                    /\ db'.cards[c].sentence = Strip(sentence))]_vars

\* C24: in every reachable state of the demo, add_card with a blank word or
\* a blank sentence answers 'Please provide both word and sentence.' and
\* leaves the database as it is; with both non-blank it stores exactly one
\* new card, whose word and sentence are the stripped inputs.
C24_AddCardChecksBlank ==
    \A word \in DemoWords, sentence \in DemoSentences, language \in Languages :
        LET o == demo_add_card(demo, db, word, sentence, language,
                               Dt(clock, 0), ToString(clock))
            new == DOMAIN o.db.cards \ DOMAIN db.cards
        IN  IF Strip(word) = <<>> \/ Strip(sentence) = <<>>
            THEN /\ o.msg.text = "Please provide both word and sentence."
                 /\ o.db = db
            ELSE /\ Cardinality(new) = 1
                 /\ \A id \in new : /\ o.db.cards[id].word = Strip(word)
                                    /\ o.db.cards[id].sentence = Strip(sentence)

\* The call of caller t run alone, with the same draws from outside
Alone(t) ==
    review_card(last[t].card, last[t].rating, last[t].now,
                [uuid |-> Get(last[t].result).log.id, ivl |-> last[t].ivl,
                 learned |-> Some(last[t].learned), ai |-> last[t].ai])

\* C26: when review_card calls for different cards are interleaved on one
\* scheduler, AI service and database, each finished call has the
\* stability, difficulty, state, due_date and review_count of the same call
\* run alone.
C26_InterleavedLikeAlone ==
    \A t \in Callers :
        last[t].pc = "done" =>
            LET got == Get(last[t].result).card
                alone == Get(Alone(t).card)
            IN  /\ got.stability = alone.stability
                /\ got.difficulty = alone.difficulty
                /\ got.state = alone.state
                /\ got.due_date = alone.due_date
                /\ got.review_count = alone.review_count

\* Both calls finished with different schedules, and one of them listed the
\* models through its own client and sent its generation request through
\* the client the other call had configured meanwhile
C26_Witness ==
    /\ \A t \in Callers : last[t].pc = "done"
    /\ Get(last[1].result).card.state # Get(last[2].result).card.state
    /\ Get(last[1].result).card.due_date # Get(last[2].result).card.due_date
    /\ last[1].listed_with = Some(CallerKey(1))
    /\ last[1].client = Some(CallerKey(2))

\* C27: under any interleaving of start_review and submit_review handlers
\* on the shared demo object, no two reviews written to the database were
\* computed from the same prior state of a card: two results derived from
\* one stale current_card are never both written.
C27_NoTwoWritesFromOneState ==
    \A i, j \in DOMAIN chain.cards :
        i # j => chain.cards[i] # chain.cards[j]

\* Two submit_review handlers held the same card at the same time; one has
\* ended in 'Error during review' and written nothing, the other is still
\* in its call with that card
C27_Witness ==
    \E t, u \in Callers :
        /\ t # u
        /\ last[t].pc = "idle"
        /\ last[u].pc = "calling"
        /\ last[u].card # None
        /\ last[u].card = demo.current_card
        /\ msg # None
        /\ Get(msg).op = "submit_review"
        /\ Get(msg).text = "Error during review"
        /\ Get(msg).input = last[u].rating_input
        /\ Get(last[u].card).id \in DOMAIN db.cards
        /\ db.cards[Get(last[u].card).id].review_count = 0
        /\ DOMAIN db.review_logs = {}

\* C28: the card returned by review_card has the id, word,
\* original_sentence, created_at and language of the input card, for every
\* rating and every outcome of sentence generation.
C28_ReviewKeepsIdentity ==
    (last # None /\ Get(last).result.ok) =>
        /\ LastCard.id = Get(last).card.id
        /\ LastCard.word = Get(last).card.word
        /\ LastCard.original_sentence = Get(last).card.original_sentence
        /\ LastCard.created_at = Get(last).card.created_at
        /\ LastCard.language = Get(last).card.language

\* A reviewed Japanese card is reviewed again and the AI service's sentence
\* replaces the card's sentence
C28_Witness ==
    /\ last # None
    /\ Get(last).result.ok
    /\ Get(last).card.language = "Japanese"
    /\ Get(last).card.review_count = 1
    /\ Get(last).rating = AGAIN
    /\ LastCard.sentence # Get(last).card.sentence
    /\ LastCard.id = <<"c", "2">>

\* The number of review logs stored for a card id
LogsOf(id) == Cardinality({l \in DOMAIN db.review_logs : db.review_logs[l].card_id = id})

\* C29: after any sequence of add-card and review operations of the demo
\* and of the command line, every stored card's review_count equals the
\* number of review logs stored for its id.
C29_CountMatchesLogs ==
    \A id \in DOMAIN db.cards : db.cards[id].review_count = LogsOf(id)

\* A card is stored and selected, and a review of it was just submitted
C29_Witness ==
    /\ demo.current_card # None
    /\ Get(demo.current_card).id \in DOMAIN db.cards
    /\ msg # None
    /\ Get(msg).op = "submit_review"
    /\ Get(msg).input = <<"3">>
    /\ Get(msg).text = "Error during review"

\* The number of stored review logs of the cards that now carry the word
LogsOfWord(word) ==
    Cardinality({l \in DOMAIN db.review_logs :
                    db.cards[db.review_logs[l].card_id].word = word})

\* C30: after any sequence of add_card, update_card and add_review_log
\* calls every stored card's word has a vocabulary entry, an entry's
\* first_seen never changes once inserted, and an entry's review_count is
\* the number of stored review logs of the cards now carrying its word.
C30_VocabularyTracksLogs ==
    /\ [](/\ \A id \in DOMAIN db.cards : db.cards[id].word \in DOMAIN db.vocabulary
          /\ \A word \in DOMAIN db.vocabulary :
                db.vocabulary[word].review_count = LogsOfWord(word))
    /\ [][\A word \in DOMAIN db.vocabulary :
             /\ word \in DOMAIN db'.vocabulary
             /\ db'.vocabulary[word].first_seen = db.vocabulary[word].first_seen]_vars

====
